---- MODULE Spec2Model ----
(***************************************************************************)
(* Strategy evaluation engine of the football betting backtester:          *)
(* league table, form and momentum signals, the four strategy evaluators,  *)
(* the performance aggregator and the waterfall advisor.                   *)
(*                                                                         *)
(* Numbers.  Odds and money are kept in hundredths (odds 1.5 is 150, a     *)
(* unit stake is 1 and pays stake*odds hundredths).  Scores that the code  *)
(* computes by one division (form_score, momentum_score) are kept as exact *)
(* fractions [num, den] and compared by cross-multiplication.  A missing   *)
(* cell (pandas NaN / NaT) is the value NaN, which the code only ever      *)
(* tests with pd.isna before it compares.                                  *)
(***************************************************************************)
EXTENDS Integers, Sequences, FiniteSets, TLC

VARIABLES
    df,        \* the season file of the season being analysed (rows in file order)
    prev_df,   \* the season file of the previous season
    bets,      \* a list of Bet Records handed to the performance aggregator
    data_directory,  \* the season files on disk, by season (backtests only)
    call,      \* the entry point that was called, with its arguments
    ret        \* what the call returned

vars == <<df, prev_df, bets, data_directory, call, ret>>

(***************************************************************************)
(* Bounds of the model.                                                    *)
(***************************************************************************)
MaxMatches == 4

MaxBets == 3

MaxTargetMatches == 2

(***************************************************************************)
(* Cells and dates.                                                        *)
(***************************************************************************)
NaN == -1

\* No season file on disk matters to the call.
NoDirectory == <<>>

isna(x) == x = NaN

\* A missing text cell (team name, result code).
isnaText(x) == x = "NaN"

\* not pd.isna(odds) and odds > 0
ValidOdds(x) == ~isna(x) /\ x > 0

\* A date string: a calendar day written in some format.
DateString(f, d) == [fmt |-> f, day |-> d]

\* pd.to_datetime(s, format='%Y-%m-%d', errors='coerce'): a string in another
\* format (or a missing cell) becomes NaT.
to_datetime(s) == IF s.fmt = "ymd" THEN s.day ELSE NaN

\* Timestamp.strftime('%Y-%m-%d')
strftime(d) == DateString("ymd", d)

Min(a, b) == IF a <= b THEN a ELSE b

Max(a, b) == IF a >= b THEN a ELSE b

Abs(a) == IF a >= 0 THEN a ELSE -a

\* An exact fraction num/den, den > 0.
Frac(n, d) == [num |-> n, den |-> d]

FracGE(a, b) == a.num * b.den >= b.num * a.den

FracLE(a, b) == a.num * b.den <= b.num * a.den

FracGT(a, b) == a.num * b.den > b.num * a.den

FracLT(a, b) == a.num * b.den < b.num * a.den

\* abs(a - b) as a fraction
FracAbsDiff(a, b) == Frac(Abs(a.num * b.den - b.num * a.den), a.den * b.den)

FracSub(a, b) == Frac(a.num * b.den - b.num * a.den, a.den * b.den)

FracTimes(a, k) == Frac(a.num * k, a.den)

FracMin(a, b) == IF FracLE(a, b) THEN a ELSE b

(***************************************************************************)
(* Season files.  The fixture list of a season is fixed; what varies is    *)
(* how many matches have been played, their results, and at most one       *)
(* damaged cell in the file.  No team plays twice on one day; the file is  *)
(* not in date order (the second and third rows are swapped in time).      *)
(***************************************************************************)
Teams == {"TeamA", "TeamB", "TeamC"}

Fixtures ==
    << [HomeTeam |-> "TeamA", AwayTeam |-> "TeamB", day |-> 1, H |-> 150, D |-> 400, A |-> 600],
       [HomeTeam |-> "TeamB", AwayTeam |-> "TeamC", day |-> 3, H |-> 200, D |-> 320, A |-> 350],
       [HomeTeam |-> "TeamC", AwayTeam |-> "TeamA", day |-> 2, H |-> 300, D |-> 330, A |-> 230],
       [HomeTeam |-> "TeamB", AwayTeam |-> "TeamA", day |-> 4, H |-> 250, D |-> 310, A |-> 280],
       [HomeTeam |-> "TeamC", AwayTeam |-> "TeamB", day |-> 5, H |-> 180, D |-> 350, A |-> 420],
       [HomeTeam |-> "TeamA", AwayTeam |-> "TeamC", day |-> 6, H |-> 120, D |-> 600, A |-> 900] >>

Results == {"H", "D", "A"}

HomeGoals(r) == IF r = "H" THEN 2 ELSE IF r = "D" THEN 1 ELSE 0

AwayGoals(r) == IF r = "H" THEN 0 ELSE 1

\* The fixture list repeats after its last row, one round later.
FixtureAt(i) ==
    LET round == (i - 1) \div Len(Fixtures)
        f == Fixtures[((i - 1) % Len(Fixtures)) + 1]
    IN  [f EXCEPT !.day = @ + round * Len(Fixtures)]

\* Row i of the file, played with result r, with the cell named by fault damaged.
Row(i, r, fault) ==
    LET f == FixtureAt(i) IN
    [ HomeTeam |-> IF fault = "HomeTeam" THEN "NaN" ELSE f.HomeTeam,
      AwayTeam |-> IF fault = "AwayTeam" THEN "NaN" ELSE f.AwayTeam,
      Date     |-> IF fault = "Date" THEN DateString("dmy", f.day) ELSE DateString("ymd", f.day),
      FTHG     |-> IF fault = "FTHG" THEN NaN ELSE HomeGoals(r),
      FTAG     |-> IF fault = "FTAG" THEN NaN ELSE AwayGoals(r),
      FTR      |-> IF fault = "FTR" THEN "NaN" ELSE r,
      H        |-> IF fault = "H" THEN NaN ELSE IF fault = "H0" THEN 0 ELSE f.H,
      D        |-> IF fault = "D" THEN NaN ELSE IF fault = "D0" THEN 0 ELSE f.D,
      A        |-> IF fault = "A" THEN NaN ELSE IF fault = "A0" THEN 0 ELSE f.A ]

\* The season files of at most MaxMatches played matches with at most one
\* damaged cell, of a kind in faults.
SeasonFilesUpTo(max, faults) ==
    UNION { { [i \in 1..n |-> Row(i, res[i], "none")] : res \in [1..n -> Results] }
            \cup { [i \in 1..n |-> Row(i, res[i], IF i = k[1] THEN k[2] ELSE "none")] :
                       res \in [1..n -> Results], k \in (1..n) \X faults }
          : n \in 0..max }

SeasonFiles(faults) == SeasonFilesUpTo(MaxMatches, faults)

\* The previous season: twenty teams that each play once; the results of the
\* matches of TeamA, TeamB and TeamC vary, the other matches are drawn.
PrevFixtures ==
    << [HomeTeam |-> "TeamA", AwayTeam |-> "TeamD", FTR |-> "H"],
       [HomeTeam |-> "TeamE", AwayTeam |-> "TeamF", FTR |-> "D"],
       [HomeTeam |-> "TeamG", AwayTeam |-> "TeamH", FTR |-> "D"],
       [HomeTeam |-> "TeamI", AwayTeam |-> "TeamJ", FTR |-> "D"],
       [HomeTeam |-> "TeamB", AwayTeam |-> "TeamK", FTR |-> "H"],
       [HomeTeam |-> "TeamL", AwayTeam |-> "TeamM", FTR |-> "D"],
       [HomeTeam |-> "TeamN", AwayTeam |-> "TeamO", FTR |-> "D"],
       [HomeTeam |-> "TeamP", AwayTeam |-> "TeamQ", FTR |-> "D"],
       [HomeTeam |-> "TeamR", AwayTeam |-> "TeamS", FTR |-> "D"],
       [HomeTeam |-> "TeamC", AwayTeam |-> "TeamT", FTR |-> "H"] >>

OpenRows == {1, 5, 10}

PrevRow(i, r) ==
    [HomeTeam |-> PrevFixtures[i].HomeTeam, AwayTeam |-> PrevFixtures[i].AwayTeam,
     FTHG |-> HomeGoals(r), FTAG |-> AwayGoals(r), FTR |-> r]

PrevSeasonFiles ==
    { [i \in 1..Len(PrevFixtures) |->
          PrevRow(i, IF i \in OpenRows THEN res[i] ELSE PrevFixtures[i].FTR)] :
      res \in [OpenRows -> Results] }

Days == 1..(MaxMatches + 2)

(***************************************************************************)
(* Signal calculators.                                                     *)
(***************************************************************************)
\* Mutant: the as-of day itself is let through (<= for <).
TeamMatchesUpTo(d, team, match_date_dt) ==
    SelectSeq(d, LAMBDA m : /\ (m.HomeTeam = team \/ m.AwayTeam = team)
                            /\ ~isna(to_datetime(m.Date))
                            /\ to_datetime(m.Date) <= match_date_dt)

\* df[((HomeTeam == team) | (AwayTeam == team)) & (Date < match_date_dt)]
TeamMatchesBefore(d, team, match_date_dt) ==
    SelectSeq(d, LAMBDA m : /\ (m.HomeTeam = team \/ m.AwayTeam = team)
                            /\ ~isna(to_datetime(m.Date))
                            /\ to_datetime(m.Date) < match_date_dt)

RECURSIVE InsertByDateDesc(_, _)
InsertByDateDesc(m, s) ==
    IF s = <<>> THEN <<m>>
    ELSE IF to_datetime(Head(s).Date) >= to_datetime(m.Date)
         THEN <<Head(s)>> \o InsertByDateDesc(m, Tail(s))
         ELSE <<m>> \o s

\* sort_values('Date', ascending=False)
RECURSIVE SortByDateDesc(_)
SortByDateDesc(s) ==
    IF s = <<>> THEN <<>>
    ELSE InsertByDateDesc(s[Len(s)], SortByDateDesc(SubSeq(s, 1, Len(s) - 1)))

\* Mutant: the window is not applied.
HeadRowsUnlimited(s, n) == s

\* DataFrame.head(n)
HeadRows(s, n) ==
    IF n >= 0 THEN SubSeq(s, 1, Min(n, Len(s)))
    ELSE SubSeq(s, 1, Max(0, Len(s) + n))

\* The result of match m seen from team: W, D or L.
TeamResult(m, team) ==
    IF m.HomeTeam = team
    THEN (IF m.FTR = "H" THEN "W" ELSE IF m.FTR = "D" THEN "D" ELSE "L")
    ELSE (IF m.FTR = "A" THEN "W" ELSE IF m.FTR = "D" THEN "D" ELSE "L")

ResultsOf(s, team) == [i \in 1..Len(s) |-> TeamResult(s[i], team)]

CountOf(results, x) == Cardinality({i \in 1..Len(results) : results[i] = x})

CalculateTeamForm(d, team, match_date, form_games) ==
    LET match_date_dt == to_datetime(match_date) IN
    IF isna(match_date_dt) THEN [error |-> "Invalid date format"]
    ELSE
    LET team_matches == TeamMatchesBefore(d, team, match_date_dt) IN
    IF team_matches = <<>>
    THEN [games_played |-> 0, wins |-> 0, draws |-> 0, losses |-> 0, points |-> 0,
          form_score |-> Frac(0, 1), form_games |-> form_games]
    ELSE
    LET recent_matches == HeadRows(SortByDateDesc(team_matches), form_games)
        results == ResultsOf(recent_matches, team)
        wins    == CountOf(results, "W")
        draws   == CountOf(results, "D")
        losses  == CountOf(results, "L")
        points  == wins * 3 + draws
    IN  [games_played |-> Len(recent_matches), wins |-> wins, draws |-> draws,
         losses |-> losses, points |-> points,
         form_score |-> IF form_games > 0 THEN Frac(points, form_games * 3) ELSE Frac(0, 1),
         form_games |-> form_games]

\* Mutant: every result equal to the first one is counted, consecutive or not.
CountAllEqual(results, first_result) == CountOf(results, first_result)

\* The number of leading results equal to the first one.
RECURSIVE LeadingRun(_, _)
LeadingRun(results, first_result) ==
    IF results = <<>> THEN 0
    ELSE IF Head(results) = first_result
         THEN 1 + LeadingRun(Tail(results), first_result)
         ELSE 0

CalculateTeamMomentum(d, team, match_date, lookback_games) ==
    LET match_date_dt == to_datetime(match_date) IN
    IF isna(match_date_dt) THEN [error |-> "Invalid date format"]
    ELSE
    LET team_matches   == TeamMatchesBefore(d, team, match_date_dt)
        recent_matches == HeadRows(SortByDateDesc(team_matches), lookback_games)
    IN
    IF team_matches = <<>> \/ recent_matches = <<>>
    THEN [games_played |-> 0, current_streak |-> 0, streak_type |-> "none",
          momentum_score |-> Frac(0, 1), lookback_games |-> lookback_games]
    ELSE
    LET results        == ResultsOf(recent_matches, team)
        first_result   == results[1]
        streak_type    == IF first_result = "W" THEN "winning"
                          ELSE IF first_result = "L" THEN "losing" ELSE "draw"
        current_streak == LeadingRun(results, first_result)
    IN  [games_played |-> Len(recent_matches), current_streak |-> current_streak,
         streak_type |-> streak_type,
         momentum_score |-> IF streak_type = "winning" THEN Frac(current_streak, lookback_games)
                            ELSE IF streak_type = "losing" THEN Frac(-current_streak, lookback_games)
                            ELSE Frac(0, 1),
         lookback_games |-> lookback_games]

(***************************************************************************)
(* The signal calculators called on a season file.                         *)
(***************************************************************************)
Windows == {1, 2, 3, 10}

AsOfDates == {DateString("ymd", d) : d \in Days} \cup {DateString("dmy", 1)}

Idle == [op |-> "idle"]

NoReturn == [op |-> "none"]

InitSignals ==
    /\ df \in SeasonFiles({"FTR", "Date"})
    /\ prev_df = <<>>
    /\ bets = <<>>
    /\ data_directory = NoDirectory
    /\ call = Idle
    /\ ret = NoReturn

CallTeamForm ==
    /\ call = Idle
    /\ \E team \in Teams, match_date \in AsOfDates, form_games \in Windows :
         /\ call' = [op |-> "calculate_team_form", team |-> team,
                     match_date |-> match_date, window |-> form_games]
         /\ ret' = CalculateTeamForm(df, team, match_date, form_games)
    /\ UNCHANGED <<df, prev_df, bets, data_directory>>

CallTeamMomentum ==
    /\ call = Idle
    /\ \E team \in Teams, match_date \in AsOfDates, lookback_games \in Windows :
         /\ call' = [op |-> "calculate_team_momentum", team |-> team,
                     match_date |-> match_date, window |-> lookback_games]
         /\ ret' = CalculateTeamMomentum(df, team, match_date, lookback_games)
    /\ UNCHANGED <<df, prev_df, bets, data_directory>>

NextSignals == CallTeamForm \/ CallTeamMomentum

SpecSignals == InitSignals /\ [][NextSignals]_vars

(***************************************************************************)
(* Performance aggregator.  total_stake counts unit stakes; total_winnings *)
(* and profit_loss are in hundredths of a unit; win_rate and roi are in    *)
(* hundredths of a percent (the code rounds all three to two decimals).    *)
(***************************************************************************)
\* Mutant: rounding replaced by rounding down.
RoundDown(n, d) == n \div d

\* The integer nearest to n/d (d > 0), ties to the even one: Python's round().
RoundHalfEven(n, d) ==
    LET q == n \div d
        r == n % d
    IN  IF 2 * r < d THEN q
        ELSE IF 2 * r > d THEN q + 1
        ELSE IF q % 2 = 0 THEN q ELSE q + 1

\* round(n/d, 2), in hundredths
Round2(n, d) == RoundHalfEven(n * 100, d)

RECURSIVE SumOf(_, _)
SumOf(s, field) == IF s = <<>> THEN 0 ELSE Head(s)[field] + SumOf(Tail(s), field)

CalculateMetrics(bet_details) ==
    IF bet_details = <<>>
    THEN [total_bets |-> 0, winning_bets |-> 0, win_rate |-> 0, total_stake |-> 0,
          total_winnings |-> 0, profit_loss |-> 0, roi |-> 0]
    ELSE
    LET total_bets     == Len(bet_details)
        winning_bets   == Cardinality({i \in 1..Len(bet_details) : bet_details[i].bet_wins})
        total_stake    == SumOf(bet_details, "stake")
        total_winnings == SumOf(bet_details, "winnings")
        profit_loss    == total_winnings - 100 * total_stake
    IN  [total_bets |-> total_bets, winning_bets |-> winning_bets,
         win_rate |-> IF total_bets > 0 THEN Round2(winning_bets * 100, total_bets) ELSE 0,
         total_stake |-> total_stake, total_winnings |-> total_winnings,
         profit_loss |-> Round2(profit_loss, 100),
         roi |-> IF total_stake > 0 THEN Round2(profit_loss, total_stake) ELSE 0]

CalculateSeparateMetrics(bet_details) ==
    LET for_bets     == SelectSeq(bet_details, LAMBDA bet : bet.bet_type = "FOR")
        against_bets == SelectSeq(bet_details, LAMBDA bet : bet.bet_type = "AGAINST")
    IN  [for_bets |-> CalculateMetrics(for_bets), against_bets |-> CalculateMetrics(against_bets)]

\* Mutant: a won bet is credited with the profit only.
BetRecordNetOfStake(match, team, type, wins, odds, stake) ==
    [match_date |-> match.Date, home_team |-> match.HomeTeam, away_team |-> match.AwayTeam,
     bet_team |-> team, bet_type |-> type, result |-> match.FTR, bet_wins |-> wins,
     odds |-> odds, stake |-> stake, winnings |-> IF wins THEN stake * odds - stake ELSE 0]

\* A Bet Record as the evaluators build it.
BetRecord(match, team, type, wins, odds, stake) ==
    [match_date |-> match.Date, home_team |-> match.HomeTeam, away_team |-> match.AwayTeam,
     bet_team |-> team, bet_type |-> type, result |-> match.FTR, bet_wins |-> wins,
     odds |-> odds, stake |-> stake, winnings |-> IF wins THEN stake * odds ELSE 0]

(***************************************************************************)
(* The aggregator called on a list of Bet Records.                         *)
(***************************************************************************)
SomeBetRecords ==
    { BetRecord(Row(1, "H", "none"), "TeamA", type, wins, odds, stake) :
        type \in {"FOR", "AGAINST"}, wins \in BOOLEAN, odds \in {150, 200}, stake \in {0, 1} }

InitMetrics ==
    /\ df = <<>>
    /\ prev_df = <<>>
    /\ bets \in UNION { [1..n -> SomeBetRecords] : n \in 0..MaxBets }
    /\ data_directory = NoDirectory
    /\ call = Idle
    /\ ret = NoReturn

CallCalculateMetrics ==
    /\ call = Idle
    /\ call' = [op |-> "calculate_metrics"]
    /\ ret' = CalculateMetrics(bets)
    /\ UNCHANGED <<df, prev_df, bets, data_directory>>

CallCalculateSeparateMetrics ==
    /\ call = Idle
    /\ call' = [op |-> "calculate_separate_metrics"]
    /\ ret' = CalculateSeparateMetrics(bets)
    /\ UNCHANGED <<df, prev_df, bets, data_directory>>

NextMetrics == CallCalculateMetrics \/ CallCalculateSeparateMetrics

SpecMetrics == InitMetrics /\ [][NextMetrics]_vars

(***************************************************************************)
(* Strategy evaluators: analyze_betting_performance of the Home-Away, Form *)
(* and Momentum strategies on the season file d.                           *)
(***************************************************************************)
RECURSIVE Flatten(_)
Flatten(ss) == IF ss = <<>> THEN <<>> ELSE Head(ss) \o Flatten(Tail(ss))

MissingEssential(match) ==
    isnaText(match.HomeTeam) \/ isnaText(match.AwayTeam) \/ isnaText(match.FTR)

\* A bet against team: on the opponent or the draw, at the better of the two odds.
AgainstRecord(match, team, type) ==
    LET opponent_odds == IF team = match.HomeTeam THEN match.A ELSE match.H
        bet_wins == IF team = match.HomeTeam THEN match.FTR \in {"A", "D"}
                    ELSE match.FTR \in {"H", "D"}
    IN  BetRecord(match, team, type, bet_wins, Max(opponent_odds, match.D), 1)

\* Mutant: only the opponent's odds are checked.
AgainstOpponentOddsValid(match, team) ==
    ValidOdds(IF team = match.HomeTeam THEN match.A ELSE match.H)

AgainstOddsValid(match, team) ==
    ValidOdds(IF team = match.HomeTeam THEN match.A ELSE match.H) /\ ValidOdds(match.D)

\* Mutant: the bet is won unless the away team wins.
HomeAwayBetsDrawWins(match) ==
    IF MissingEssential(match) \/ isna(match.H) \/ match.H <= 0 THEN <<>>
    ELSE <<BetRecord(match, match.HomeTeam, "HOME_WIN", match.FTR # "A", match.H, 1)>>

\* The body of the Home-Away loop for one match.
HomeAwayBets(match) ==
    IF MissingEssential(match) THEN <<>>
    ELSE IF isna(match.H) THEN <<>>
    ELSE IF ValidOdds(match.H)
         THEN <<BetRecord(match, match.HomeTeam, "HOME_WIN", match.FTR = "H", match.H, 1)>>
         ELSE <<>>

WithMetrics(strategy, bet_details) ==
    IF bet_details = <<>> THEN [error |-> "No valid bets found"]
    ELSE [strategy |-> strategy, bet_details |-> bet_details] @@ CalculateMetrics(bet_details)

AnalyzeHomeAway(d) ==
    IF d = <<>> THEN [error |-> "No data available"]
    ELSE WithMetrics("home_away", Flatten([i \in 1..Len(d) |-> HomeAwayBets(d[i])]))

PoorFormThreshold == Frac(3, 10)

\* Mutant: a match with a bet on a team in good form gets no bet against the other.
FormLegsBackingFirst(match, home_form_score, away_form_score, form_threshold, bet_against_poor_form) ==
    LET backing ==
          (IF FracGE(home_form_score, form_threshold) /\ ValidOdds(match.H)
           THEN <<BetRecord(match, match.HomeTeam, "FORM_GOOD", match.FTR = "H", match.H, 1)>>
           ELSE <<>>)
          \o
          (IF FracGE(away_form_score, form_threshold) /\ ValidOdds(match.A)
           THEN <<BetRecord(match, match.AwayTeam, "FORM_GOOD", match.FTR = "A", match.A, 1)>>
           ELSE <<>>)
    IN  IF backing # <<>> THEN backing
        ELSE (IF bet_against_poor_form /\ FracLE(home_form_score, PoorFormThreshold)
                 /\ AgainstOddsValid(match, match.HomeTeam)
              THEN <<AgainstRecord(match, match.HomeTeam, "FORM_POOR_AGAINST")>>
              ELSE <<>>)
             \o
             (IF bet_against_poor_form /\ FracLE(away_form_score, PoorFormThreshold)
                 /\ AgainstOddsValid(match, match.AwayTeam)
              THEN <<AgainstRecord(match, match.AwayTeam, "FORM_POOR_AGAINST")>>
              ELSE <<>>)

\* The four independent legs of the Form decision for one match.
FormLegs(match, home_form_score, away_form_score, form_threshold, bet_against_poor_form) ==
    (IF FracGE(home_form_score, form_threshold) /\ ValidOdds(match.H)
     THEN <<BetRecord(match, match.HomeTeam, "FORM_GOOD", match.FTR = "H", match.H, 1)>>
     ELSE <<>>)
    \o
    (IF FracGE(away_form_score, form_threshold) /\ ValidOdds(match.A)
     THEN <<BetRecord(match, match.AwayTeam, "FORM_GOOD", match.FTR = "A", match.A, 1)>>
     ELSE <<>>)
    \o
    (IF bet_against_poor_form /\ FracLE(home_form_score, PoorFormThreshold)
        /\ AgainstOddsValid(match, match.HomeTeam)
     THEN <<AgainstRecord(match, match.HomeTeam, "FORM_POOR_AGAINST")>>
     ELSE <<>>)
    \o
    (IF bet_against_poor_form /\ FracLE(away_form_score, PoorFormThreshold)
        /\ AgainstOddsValid(match, match.AwayTeam)
     THEN <<AgainstRecord(match, match.AwayTeam, "FORM_POOR_AGAINST")>>
     ELSE <<>>)

\* The body of the Form loop for one match of the file d.
FormBets(d, match, form_games, form_threshold, bet_against_poor_form) ==
    IF MissingEssential(match) \/ isna(to_datetime(match.Date)) THEN <<>>
    ELSE IF isna(match.H) \/ isna(match.A) THEN <<>>
    ELSE
    LET match_date_str == strftime(to_datetime(match.Date))
        home_form == CalculateTeamForm(d, match.HomeTeam, match_date_str, form_games)
        away_form == CalculateTeamForm(d, match.AwayTeam, match_date_str, form_games)
    IN  IF "error" \in DOMAIN home_form \/ "error" \in DOMAIN away_form THEN <<>>
        ELSE IF home_form.games_played < form_games \/ away_form.games_played < form_games
             THEN <<>>
             ELSE FormLegs(match, home_form.form_score, away_form.form_score,
                           form_threshold, bet_against_poor_form)

AnalyzeForm(d, form_games, form_threshold, bet_against_poor_form) ==
    IF d = <<>> THEN [error |-> "No data available"]
    ELSE WithMetrics("form",
             Flatten([i \in 1..Len(d) |->
                        FormBets(d, d[i], form_games, form_threshold, bet_against_poor_form)]))

MinMomentumGames == 2

EqualMomentumTolerance == Frac(1, 100)

MomentumWinningRecord(match, team) ==
    IF team = match.HomeTeam
    THEN (IF ValidOdds(match.H)
          THEN <<BetRecord(match, team, "MOMENTUM_WINNING", match.FTR = "H", match.H, 1)>>
          ELSE <<>>)
    ELSE (IF ValidOdds(match.A)
          THEN <<BetRecord(match, team, "MOMENTUM_WINNING", match.FTR = "A", match.A, 1)>>
          ELSE <<>>)

\* Mutant: each team that clears the threshold is backed, both if both do.
MomentumBackBothSides(match, home_momentum_score, away_momentum_score, winning_momentum_threshold) ==
    (IF FracGE(home_momentum_score, winning_momentum_threshold)
     THEN MomentumWinningRecord(match, match.HomeTeam) ELSE <<>>)
    \o
    (IF FracGE(away_momentum_score, winning_momentum_threshold)
     THEN MomentumWinningRecord(match, match.AwayTeam) ELSE <<>>)

\* The winning-momentum decision for one match: the draw, one team, or nothing.
MomentumBacking(match, home_momentum_score, away_momentum_score, winning_momentum_threshold) ==
    IF /\ FracGE(home_momentum_score, winning_momentum_threshold)
       /\ FracGE(away_momentum_score, winning_momentum_threshold)
    THEN IF FracLT(FracAbsDiff(home_momentum_score, away_momentum_score), EqualMomentumTolerance)
         THEN (IF ValidOdds(match.D)
               THEN <<BetRecord(match, "DRAW", "MOMENTUM_DRAW", match.FTR = "D", match.D, 1)>>
               ELSE <<>>)
         ELSE IF FracGT(home_momentum_score, away_momentum_score)
              THEN MomentumWinningRecord(match, match.HomeTeam)
              ELSE MomentumWinningRecord(match, match.AwayTeam)
    ELSE IF FracGE(home_momentum_score, winning_momentum_threshold)
         THEN MomentumWinningRecord(match, match.HomeTeam)
         ELSE IF FracGE(away_momentum_score, winning_momentum_threshold)
              THEN MomentumWinningRecord(match, match.AwayTeam)
              ELSE <<>>

\* The bets against teams with losing momentum for one match.
MomentumAgainst(match, home_momentum_score, away_momentum_score, losing_momentum_threshold, bet_against_losing_momentum) ==
    (IF bet_against_losing_momentum /\ FracLE(home_momentum_score, losing_momentum_threshold)
        /\ AgainstOddsValid(match, match.HomeTeam)
     THEN <<AgainstRecord(match, match.HomeTeam, "MOMENTUM_LOSING_AGAINST")>>
     ELSE <<>>)
    \o
    (IF bet_against_losing_momentum /\ FracLE(away_momentum_score, losing_momentum_threshold)
        /\ AgainstOddsValid(match, match.AwayTeam)
     THEN <<AgainstRecord(match, match.AwayTeam, "MOMENTUM_LOSING_AGAINST")>>
     ELSE <<>>)

\* Whether the Momentum loop gets as far as the decision for this match.
MomentumEvaluates(d, match, lookback_games) ==
    /\ ~MissingEssential(match)
    /\ ~isna(to_datetime(match.Date))
    /\ ~isna(match.H) /\ ~isna(match.A)
    /\ LET match_date_str == strftime(to_datetime(match.Date))
           home_momentum == CalculateTeamMomentum(d, match.HomeTeam, match_date_str, lookback_games)
           away_momentum == CalculateTeamMomentum(d, match.AwayTeam, match_date_str, lookback_games)
       IN  /\ "error" \notin DOMAIN home_momentum
           /\ "error" \notin DOMAIN away_momentum
           /\ home_momentum.games_played >= MinMomentumGames
           /\ away_momentum.games_played >= MinMomentumGames

\* Mutant: a match with a bet on a team or on the draw gets no bet against a team.
MomentumBetsOneKind(d, match, lookback_games, winning_momentum_threshold, losing_momentum_threshold, bet_against_losing_momentum) ==
    IF ~MomentumEvaluates(d, match, lookback_games) THEN <<>>
    ELSE
    LET match_date_str == strftime(to_datetime(match.Date))
        home_momentum_score ==
            CalculateTeamMomentum(d, match.HomeTeam, match_date_str, lookback_games).momentum_score
        away_momentum_score ==
            CalculateTeamMomentum(d, match.AwayTeam, match_date_str, lookback_games).momentum_score
        backing == MomentumBacking(match, home_momentum_score, away_momentum_score,
                                   winning_momentum_threshold)
    IN  IF backing # <<>> THEN backing
        ELSE MomentumAgainst(match, home_momentum_score, away_momentum_score,
                             losing_momentum_threshold, bet_against_losing_momentum)

\* The body of the Momentum loop for one match of the file d.
MomentumBets(d, match, lookback_games, winning_momentum_threshold, losing_momentum_threshold, bet_against_losing_momentum) ==
    IF ~MomentumEvaluates(d, match, lookback_games) THEN <<>>
    ELSE
    LET match_date_str == strftime(to_datetime(match.Date))
        home_momentum_score ==
            CalculateTeamMomentum(d, match.HomeTeam, match_date_str, lookback_games).momentum_score
        away_momentum_score ==
            CalculateTeamMomentum(d, match.AwayTeam, match_date_str, lookback_games).momentum_score
    IN  MomentumBacking(match, home_momentum_score, away_momentum_score, winning_momentum_threshold)
        \o MomentumAgainst(match, home_momentum_score, away_momentum_score,
                           losing_momentum_threshold, bet_against_losing_momentum)

AnalyzeMomentum(d, lookback_games, winning_momentum_threshold, losing_momentum_threshold, bet_against_losing_momentum) ==
    IF d = <<>> THEN [error |-> "No data available"]
    ELSE WithMetrics("momentum",
             Flatten([i \in 1..Len(d) |->
                        MomentumBets(d, d[i], lookback_games, winning_momentum_threshold,
                                     losing_momentum_threshold, bet_against_losing_momentum)]))

(***************************************************************************)
(* The evaluators called on a season file.                                 *)
(***************************************************************************)
EvalFaults == {"HomeTeam", "AwayTeam", "FTR", "Date", "H", "H0", "D", "D0", "A", "A0"}

FormWindows == {1, 2}

LookbackWindows == {2, 10}

InitEval ==
    /\ df \in SeasonFiles(EvalFaults)
    /\ prev_df = <<>>
    /\ bets = <<>>
    /\ data_directory = NoDirectory
    /\ call = Idle
    /\ ret = NoReturn

CallAnalyzeHomeAway ==
    /\ call = Idle
    /\ call' = [op |-> "home_away"]
    /\ ret' = AnalyzeHomeAway(df)
    /\ UNCHANGED <<df, prev_df, bets, data_directory>>

CallAnalyzeForm ==
    /\ call = Idle
    /\ \E form_games \in FormWindows, bet_against_poor_form \in BOOLEAN :
         /\ call' = [op |-> "form", window |-> form_games, threshold |-> Frac(6, 10),
                     against |-> bet_against_poor_form]
         /\ ret' = AnalyzeForm(df, form_games, Frac(6, 10), bet_against_poor_form)
    /\ UNCHANGED <<df, prev_df, bets, data_directory>>

CallAnalyzeMomentum ==
    /\ call = Idle
    /\ \E lookback_games \in LookbackWindows, bet_against_losing_momentum \in BOOLEAN :
         /\ call' = [op |-> "momentum", window |-> lookback_games, threshold |-> Frac(2, 10),
                     losing_threshold |-> Frac(-2, 10), against |-> bet_against_losing_momentum]
         /\ ret' = AnalyzeMomentum(df, lookback_games, Frac(2, 10), Frac(-2, 10),
                                   bet_against_losing_momentum)
    /\ UNCHANGED <<df, prev_df, bets, data_directory>>

NextEval == CallAnalyzeHomeAway \/ CallAnalyzeForm \/ CallAnalyzeMomentum

SpecEval == InitEval /\ [][NextEval]_vars

(***************************************************************************)
(* League table: get_league_table, get_top_teams, get_bottom_teams.        *)
(* team_stats is kept as a sequence in the dict's insertion order.         *)
(***************************************************************************)
CompleteRow(match) ==
    ~(isnaText(match.HomeTeam) \/ isnaText(match.AwayTeam)
      \/ isna(match.FTHG) \/ isna(match.FTAG) \/ isnaText(match.FTR))

NewStats(team) ==
    [team |-> team, points |-> 0, wins |-> 0, draws |-> 0, losses |-> 0,
     goals_for |-> 0, goals_against |-> 0, matches_played |-> 0]

EnsureTeam(team_stats, team) ==
    IF \E k \in DOMAIN team_stats : team_stats[k].team = team THEN team_stats
    ELSE Append(team_stats, NewStats(team))

\* Mutant: a win is worth two points.
CreditTwoForWin(stats, goals_for, goals_against, outcome) ==
    [stats EXCEPT !.goals_for = @ + goals_for,
                  !.goals_against = @ + goals_against,
                  !.matches_played = @ + 1,
                  !.points = @ + (IF outcome = "W" THEN 2 ELSE IF outcome = "D" THEN 1 ELSE 0),
                  !.wins = @ + (IF outcome = "W" THEN 1 ELSE 0),
                  !.draws = @ + (IF outcome = "D" THEN 1 ELSE 0),
                  !.losses = @ + (IF outcome = "L" THEN 1 ELSE 0)]

\* One team's counters after one of its matches.
Credit(stats, goals_for, goals_against, outcome) ==
    [stats EXCEPT !.goals_for = @ + goals_for,
                  !.goals_against = @ + goals_against,
                  !.matches_played = @ + 1,
                  !.points = @ + (IF outcome = "W" THEN 3 ELSE IF outcome = "D" THEN 1 ELSE 0),
                  !.wins = @ + (IF outcome = "W" THEN 1 ELSE 0),
                  !.draws = @ + (IF outcome = "D" THEN 1 ELSE 0),
                  !.losses = @ + (IF outcome = "L" THEN 1 ELSE 0)]

\* The body of the loop over the rows of the file.
ApplyMatch(team_stats, match) ==
    IF ~CompleteRow(match) THEN team_stats
    ELSE
    LET known == EnsureTeam(EnsureTeam(team_stats, match.HomeTeam), match.AwayTeam)
        home_outcome == IF match.FTR = "H" THEN "W" ELSE IF match.FTR = "A" THEN "L" ELSE "D"
        away_outcome == IF match.FTR = "H" THEN "L" ELSE IF match.FTR = "A" THEN "W" ELSE "D"
    IN  [k \in DOMAIN known |->
            IF known[k].team = match.HomeTeam
            THEN Credit(known[k], match.FTHG, match.FTAG, home_outcome)
            ELSE IF known[k].team = match.AwayTeam
                 THEN Credit(known[k], match.FTAG, match.FTHG, away_outcome)
                 ELSE known[k]]

RECURSIVE TeamStats(_)
TeamStats(d) ==
    IF d = <<>> THEN <<>> ELSE ApplyMatch(TeamStats(SubSeq(d, 1, Len(d) - 1)), d[Len(d)])

WithGoalDifference(stats) ==
    stats @@ [goal_difference |-> stats.goals_for - stats.goals_against]

\* x sorts before y: more points, or equal points and a better goal difference.
RanksAbove(x, y) ==
    \/ x.points > y.points
    \/ x.points = y.points /\ x.goal_difference > y.goal_difference

\* Mutant: x is put in front of the entries it ties with.
InsertBeforeTies(sorted, x) ==
    LET before == {k \in 1..Len(sorted) : RanksAbove(sorted[k], x)}
        pos == IF before = {} THEN 0 ELSE CHOOSE k \in before : \A j \in before : j <= k
    IN  SubSeq(sorted, 1, pos) \o <<x>> \o SubSeq(sorted, pos + 1, Len(sorted))

\* Insert x after every entry it does not sort before (the sort is stable).
InsertByRank(sorted, x) ==
    LET before == {k \in 1..Len(sorted) : ~RanksAbove(x, sorted[k])}
        pos == IF before = {} THEN 0 ELSE CHOOSE k \in before : \A j \in before : j <= k
    IN  SubSeq(sorted, 1, pos) \o <<x>> \o SubSeq(sorted, pos + 1, Len(sorted))

RECURSIVE SortByRank(_)
SortByRank(league_data) ==
    IF league_data = <<>> THEN <<>>
    ELSE InsertByRank(SortByRank(SubSeq(league_data, 1, Len(league_data) - 1)),
                      league_data[Len(league_data)])

\* The table for a file with at least one complete row.
GetLeagueTable(d) ==
    LET team_stats == TeamStats(d)
        league_data == [k \in DOMAIN team_stats |-> WithGoalDifference(team_stats[k])]
        df_league == SortByRank(league_data)
    IN  [k \in DOMAIN df_league |-> df_league[k] @@ [rank |-> k]]

\* Sorting a frame without columns fails.
LeagueTableRaises(d) == TeamStats(d) = <<>>

head(s, n) == SubSeq(s, 1, Min(n, Len(s)))

tail(s, n) == SubSeq(s, Len(s) - Min(n, Len(s)) + 1, Len(s))

TeamColumn(table) == [k \in DOMAIN table |-> table[k].team]

GetTopTeams(d, n) == TeamColumn(head(GetLeagueTable(d), n))

Relegated == 3

GetBottomTeams(d, n) == TeamColumn(head(tail(GetLeagueTable(d), n + Relegated), n))

TableFaults == {"HomeTeam", "AwayTeam", "FTHG", "FTAG", "FTR"}

TopNs == {1, 2, 3}

InitTable ==
    /\ df \in SeasonFiles(TableFaults)
    /\ prev_df = <<>>
    /\ bets = <<>>
    /\ data_directory = NoDirectory
    /\ call = Idle
    /\ ret = NoReturn

CallGetLeagueTable ==
    /\ call = Idle
    /\ call' = [op |-> "get_league_table"]
    /\ ret' = IF LeagueTableRaises(df) THEN [raise |-> "KeyError"]
              ELSE [table |-> GetLeagueTable(df)]
    /\ UNCHANGED <<df, prev_df, bets, data_directory>>

CallGetTopTeams ==
    /\ call = Idle
    /\ \E n \in TopNs :
         /\ call' = [op |-> "get_top_teams", n |-> n]
         /\ ret' = IF LeagueTableRaises(df) THEN [raise |-> "KeyError"]
                   ELSE [teams |-> GetTopTeams(df, n)]
    /\ UNCHANGED <<df, prev_df, bets, data_directory>>

CallGetBottomTeams ==
    /\ call = Idle
    /\ \E n \in TopNs :
         /\ call' = [op |-> "get_bottom_teams", n |-> n]
         /\ ret' = IF LeagueTableRaises(df) THEN [raise |-> "KeyError"]
                   ELSE [teams |-> GetBottomTeams(df, n)]
    /\ UNCHANGED <<df, prev_df, bets, data_directory>>

\* A second call on the same file; the first call's answer is kept beside it.
CallGetLeagueTableAgain ==
    /\ call.op = "get_league_table"
    /\ call' = [op |-> "get_league_table_again"]
    /\ ret' = IF LeagueTableRaises(df) THEN [raise |-> "KeyError", previous |-> ret]
              ELSE [table |-> GetLeagueTable(df), previous |-> ret]
    /\ UNCHANGED <<df, prev_df, bets, data_directory>>

NextTable ==
    CallGetLeagueTable \/ CallGetTopTeams \/ CallGetBottomTeams \/ CallGetLeagueTableAgain

SpecTable == InitTable /\ [][NextTable]_vars

(***************************************************************************)
(* Top-Bottom evaluator.                                                   *)
(***************************************************************************)
InList(list, x) == \E k \in DOMAIN list : list[k] = x

\* list.index(x) + 1
RankIn(list, x) == CHOOSE k \in DOMAIN list : list[k] = x /\ \A j \in 1..(k - 1) : list[j] # x

ForRecord(match, team) ==
    LET odds == IF team = match.HomeTeam THEN match.H ELSE match.A
        bet_wins == \/ team = match.HomeTeam /\ match.FTR = "H"
                    \/ team = match.AwayTeam /\ match.FTR = "A"
    IN  IF isna(odds) \/ odds <= 0 THEN <<>>
        ELSE <<BetRecord(match, team, "FOR", bet_wins, odds, 1)>>

AgainstBet(match, team) ==
    IF AgainstOddsValid(match, team) THEN <<AgainstRecord(match, team, "AGAINST")>> ELSE <<>>

\* Case 1: the loop over the top teams that are playing.
BackTopTeamsPlaying(match, playing) ==
    Flatten([k \in DOMAIN playing |-> ForRecord(match, playing[k])])

\* The body of the Top-Bottom loop for one match.
TopBottomBets(match, top_teams, bottom_teams) ==
    IF MissingEssential(match) THEN <<>>
    ELSE IF isna(match.H) \/ isna(match.A) THEN <<>>
    ELSE
    LET home_team == match.HomeTeam
        away_team == match.AwayTeam
        top_teams_playing ==
            SelectSeq(<<home_team, away_team>>, LAMBDA team : InList(top_teams, team))
        bottom_teams_playing ==
            SelectSeq(<<home_team, away_team>>, LAMBDA team : InList(bottom_teams, team))
    IN  IF \/ InList(top_teams, home_team) /\ InList(bottom_teams, away_team)
           \/ InList(top_teams, away_team) /\ InList(bottom_teams, home_team)
        THEN BackTopTeamsPlaying(match, top_teams_playing)
        ELSE IF InList(top_teams, home_team) /\ InList(top_teams, away_team)
        THEN ForRecord(match, IF RankIn(top_teams, home_team) < RankIn(top_teams, away_team)
                              THEN home_team ELSE away_team)
        ELSE IF InList(bottom_teams, home_team) /\ InList(bottom_teams, away_team)
        THEN AgainstBet(match, IF RankIn(bottom_teams, home_team) < RankIn(bottom_teams, away_team)
                               THEN home_team ELSE away_team)
        ELSE Flatten([k \in DOMAIN top_teams_playing |-> ForRecord(match, top_teams_playing[k])])
             \o Flatten([k \in DOMAIN bottom_teams_playing |->
                           AgainstBet(match, bottom_teams_playing[k])])

AnalyzeTopBottom(prev_d, d, top_n, include_against_bottom) ==
    IF LeagueTableRaises(prev_d) THEN [raise |-> "KeyError"]
    ELSE
    LET top_teams == GetTopTeams(prev_d, top_n)
        bottom_teams == IF include_against_bottom THEN GetBottomTeams(prev_d, top_n) ELSE <<>>
        bet_details == Flatten([i \in 1..Len(d) |-> TopBottomBets(d[i], top_teams, bottom_teams)])
    IN  [top_n |-> top_n, top_teams |-> top_teams, bottom_teams |-> bottom_teams,
         bet_details |-> bet_details] @@ CalculateMetrics(bet_details)

TopBottomNs == {1, 3, 9}

TopBottomFaults == {"HomeTeam", "FTR", "H", "H0", "D", "D0", "A", "A0"}

InitTopBottom ==
    /\ df \in SeasonFilesUpTo(MaxTargetMatches, TopBottomFaults)
    /\ prev_df \in PrevSeasonFiles
    /\ bets = <<>>
    /\ data_directory = NoDirectory
    /\ call = Idle
    /\ ret = NoReturn

CallAnalyzeTopBottom ==
    /\ call = Idle
    /\ \E top_n \in TopBottomNs, include_against_bottom \in BOOLEAN :
         /\ call' = [op |-> "top_bottom", top_n |-> top_n, against |-> include_against_bottom]
         /\ ret' = AnalyzeTopBottom(prev_df, df, top_n, include_against_bottom)
    /\ UNCHANGED <<df, prev_df, bets, data_directory>>

NextTopBottom == CallAnalyzeTopBottom

SpecTopBottom == InitTopBottom /\ [][NextTopBottom]_vars

(***************************************************************************)
(* Waterfall advisor: _apply_waterfall_logic and its five checks on the    *)
(* current season d and the previous season prev_d.  None is written       *)
(* "None"; a missing priority is 0.  The field checked lists the checks    *)
(* that were called, in call order.                                        *)
(***************************************************************************)
None == "None"

NoOpportunity == [bet_team |-> None, confidence |-> Frac(0, 1)]

MomentumLookback == 10

LeagueSize == 20

\* Mutant: the games_played test is left out.
CheckFormAgainstAnyGames(d, home_team, away_team, match_date, form_games, poor_form_threshold) ==
    LET home_form == CalculateTeamForm(d, home_team, match_date, form_games)
        away_form == CalculateTeamForm(d, away_team, match_date, form_games)
    IN  IF "error" \in DOMAIN home_form \/ "error" \in DOMAIN away_form THEN NoOpportunity
        ELSE IF FracLE(home_form.form_score, poor_form_threshold)
        THEN [bet_team |-> home_team,
              confidence |-> FracMin(FracTimes(FracSub(poor_form_threshold, home_form.form_score), 2),
                                     Frac(1, 1))]
        ELSE IF FracLE(away_form.form_score, poor_form_threshold)
        THEN [bet_team |-> away_team,
              confidence |-> FracMin(FracTimes(FracSub(poor_form_threshold, away_form.form_score), 2),
                                     Frac(1, 1))]
        ELSE NoOpportunity

CheckFormAgainstOpportunity(d, home_team, away_team, match_date, form_games, poor_form_threshold) ==
    LET home_form == CalculateTeamForm(d, home_team, match_date, form_games)
        away_form == CalculateTeamForm(d, away_team, match_date, form_games)
    IN  IF "error" \in DOMAIN home_form \/ "error" \in DOMAIN away_form THEN NoOpportunity
        ELSE IF home_form.games_played < form_games \/ away_form.games_played < form_games
        THEN NoOpportunity
        ELSE IF FracLE(home_form.form_score, poor_form_threshold)
        THEN [bet_team |-> home_team,
              confidence |-> FracMin(FracTimes(FracSub(poor_form_threshold, home_form.form_score), 2),
                                     Frac(1, 1))]
        ELSE IF FracLE(away_form.form_score, poor_form_threshold)
        THEN [bet_team |-> away_team,
              confidence |-> FracMin(FracTimes(FracSub(poor_form_threshold, away_form.form_score), 2),
                                     Frac(1, 1))]
        ELSE NoOpportunity

CheckMomentumAgainstOpportunity(d, home_team, away_team, match_date) ==
    LET home_momentum == CalculateTeamMomentum(d, home_team, match_date, MomentumLookback)
        away_momentum == CalculateTeamMomentum(d, away_team, match_date, MomentumLookback)
        losing_momentum_threshold == Frac(-2, 10)
    IN  IF "error" \in DOMAIN home_momentum \/ "error" \in DOMAIN away_momentum THEN NoOpportunity
        ELSE IF \/ home_momentum.games_played < MomentumLookback
                \/ away_momentum.games_played < MomentumLookback
        THEN NoOpportunity
        ELSE IF FracLE(home_momentum.momentum_score, losing_momentum_threshold)
        THEN [bet_team |-> home_team,
              confidence |-> FracMin(FracTimes(FracAbsDiff(losing_momentum_threshold,
                                                           home_momentum.momentum_score), 2),
                                     Frac(1, 1))]
        ELSE IF FracLE(away_momentum.momentum_score, losing_momentum_threshold)
        THEN [bet_team |-> away_team,
              confidence |-> FracMin(FracTimes(FracAbsDiff(losing_momentum_threshold,
                                                           away_momentum.momentum_score), 2),
                                     Frac(1, 1))]
        ELSE NoOpportunity

CheckFormForOpportunity(d, home_team, away_team, match_date, form_games, form_threshold) ==
    LET home_form == CalculateTeamForm(d, home_team, match_date, form_games)
        away_form == CalculateTeamForm(d, away_team, match_date, form_games)
    IN  IF "error" \in DOMAIN home_form \/ "error" \in DOMAIN away_form THEN NoOpportunity
        ELSE IF home_form.games_played < form_games \/ away_form.games_played < form_games
        THEN NoOpportunity
        ELSE IF FracGE(home_form.form_score, form_threshold)
        THEN [bet_team |-> home_team,
              confidence |-> FracMin(FracTimes(FracSub(home_form.form_score, form_threshold), 2),
                                     Frac(1, 1))]
        ELSE IF FracGE(away_form.form_score, form_threshold)
        THEN [bet_team |-> away_team,
              confidence |-> FracMin(FracTimes(FracSub(away_form.form_score, form_threshold), 2),
                                     Frac(1, 1))]
        ELSE NoOpportunity

CheckMomentumForOpportunity(d, home_team, away_team, match_date) ==
    LET home_momentum == CalculateTeamMomentum(d, home_team, match_date, MomentumLookback)
        away_momentum == CalculateTeamMomentum(d, away_team, match_date, MomentumLookback)
        winning_momentum_threshold == Frac(2, 10)
    IN  IF "error" \in DOMAIN home_momentum \/ "error" \in DOMAIN away_momentum THEN NoOpportunity
        ELSE IF \/ home_momentum.games_played < MomentumLookback
                \/ away_momentum.games_played < MomentumLookback
        THEN NoOpportunity
        ELSE IF FracGE(home_momentum.momentum_score, winning_momentum_threshold)
        THEN [bet_team |-> home_team,
              confidence |-> FracMin(FracTimes(FracSub(home_momentum.momentum_score,
                                                       winning_momentum_threshold), 2),
                                     Frac(1, 1))]
        ELSE IF FracGE(away_momentum.momentum_score, winning_momentum_threshold)
        THEN [bet_team |-> away_team,
              confidence |-> FracMin(FracTimes(FracSub(away_momentum.momentum_score,
                                                       winning_momentum_threshold), 2),
                                     Frac(1, 1))]
        ELSE NoOpportunity

\* The rank of the last row of the standings that names the team, 0 if none.
PositionOf(standings, team) ==
    LET rows == {k \in DOMAIN standings : standings[k].team = team}
    IN  IF rows = {} THEN 0
        ELSE standings[CHOOSE k \in rows : \A j \in rows : j <= k].rank

CheckTopBottomOpportunity(prev_d, home_team, away_team, top_n) ==
    IF LeagueTableRaises(prev_d) THEN NoOpportunity
    ELSE
    LET standings == GetLeagueTable(prev_d)
        home_position == PositionOf(standings, home_team)
        away_position == PositionOf(standings, away_team)
    IN  IF home_position = 0 \/ away_position = 0 THEN NoOpportunity
        ELSE IF home_position <= top_n /\ away_position >= (LeagueSize - top_n + 1)
        THEN [bet_team |-> home_team, confidence |-> Frac(8, 10)]
        ELSE IF away_position <= top_n /\ home_position >= (LeagueSize - top_n + 1)
        THEN [bet_team |-> away_team, confidence |-> Frac(8, 10)]
        ELSE NoOpportunity

Recommendation(rec, bet_type, strategy_used, priority, checked) ==
    [bet_team |-> rec.bet_team, bet_type |-> bet_type, confidence |-> rec.confidence,
     strategy_used |-> strategy_used, priority |-> priority, checked |-> checked]

ApplyWaterfallLogic(d, prev_d, home_team, away_team, match_date, form_games, form_threshold, poor_form_threshold, top_n) ==
    LET form_against_rec == CheckFormAgainstOpportunity(d, home_team, away_team, match_date,
                                                        form_games, poor_form_threshold)
        momentum_against_rec == CheckMomentumAgainstOpportunity(d, home_team, away_team, match_date)
        form_for_rec == CheckFormForOpportunity(d, home_team, away_team, match_date,
                                                form_games, form_threshold)
        momentum_for_rec == CheckMomentumForOpportunity(d, home_team, away_team, match_date)
        top_bottom_rec == CheckTopBottomOpportunity(prev_d, home_team, away_team, top_n)
    IN  IF form_against_rec.bet_team # None
        THEN Recommendation(form_against_rec, "FORM_AGAINST", "form_against", 1,
                            <<"form_against">>)
        ELSE IF momentum_against_rec.bet_team # None
        THEN Recommendation(momentum_against_rec, "MOMENTUM_AGAINST", "momentum_against", 2,
                            <<"form_against", "momentum_against">>)
        ELSE IF form_for_rec.bet_team # None
        THEN Recommendation(form_for_rec, "FORM_FOR", "form_for", 3,
                            <<"form_against", "momentum_against", "form_for">>)
        ELSE IF momentum_for_rec.bet_team # None
        THEN Recommendation(momentum_for_rec, "MOMENTUM_FOR", "momentum_for", 4,
                            <<"form_against", "momentum_against", "form_for", "momentum_for">>)
        ELSE IF top_bottom_rec.bet_team # None
        THEN Recommendation(top_bottom_rec, "TOP_BOTTOM", "top_bottom", 5,
                            <<"form_against", "momentum_against", "form_for", "momentum_for",
                              "top_bottom">>)
        ELSE Recommendation(NoOpportunity, None, None, 0,
                            <<"form_against", "momentum_against", "form_for", "momentum_for",
                              "top_bottom">>)

\* Seasons for the advisor: every team has played MomentumLookback matches
\* when the season is complete; one row short, two of the teams have not.
\* The results of the last rows vary, the earlier matches are home wins.
FullSeasonRows == (Cardinality(Teams) * MomentumLookback) \div 2

OpenTailRows == 3

AdvisorSeasons ==
    UNION { { [i \in 1..n |-> Row(i, IF i \in DOMAIN res THEN res[i] ELSE "H", "none")] :
                 res \in [{i \in 1..n : i > FullSeasonRows - OpenTailRows} -> Results] }
          : n \in {0, FullSeasonRows - 1, FullSeasonRows} }

\* Previous seasons in which TeamB drew its match.
AdvisorPrevSeasons == {p \in PrevSeasonFiles : p[5].FTR = "D"}

UpcomingGames == {g \in Teams \X Teams : g[1] # g[2]}

AdvisorDates == {DateString("ymd", FullSeasonRows + 1), DateString("dmy", FullSeasonRows + 1)}

\* form_games, form_threshold, poor_form_threshold
AdvisorSettings ==
    { <<3, Frac(6, 10), Frac(4, 10)>>, <<3, Frac(8, 10), Frac(3, 10)>> }

InitWaterfall ==
    /\ df \in AdvisorSeasons
    /\ prev_df \in AdvisorPrevSeasons
    /\ bets = <<>>
    /\ data_directory = NoDirectory
    /\ call = Idle
    /\ ret = NoReturn

CallApplyWaterfallLogic ==
    /\ call = Idle
    /\ \E game \in UpcomingGames, match_date \in AdvisorDates, setting \in AdvisorSettings :
         /\ call' = [op |-> "waterfall", home_team |-> game[1], away_team |-> game[2],
                     match_date |-> match_date, form_games |-> setting[1],
                     form_threshold |-> setting[2], poor_form_threshold |-> setting[3],
                     top_n |-> 3]
         /\ ret' = ApplyWaterfallLogic(df, prev_df, game[1], game[2], match_date,
                                       setting[1], setting[2], setting[3], 3)
    /\ UNCHANGED <<df, prev_df, bets, data_directory>>

NextWaterfall == CallApplyWaterfallLogic

SpecWaterfall == InitWaterfall /\ [][NextWaterfall]_vars

(***************************************************************************)
(* get_top_teams and get_bottom_teams on tables of twenty and of at most   *)
(* three teams.                                                            *)
(***************************************************************************)
StandingsNs == {1, 3, 9, 17, 18}

InitStandings ==
    /\ df \in PrevSeasonFiles \cup SeasonFilesUpTo(MaxTargetMatches, {})
    /\ prev_df = <<>>
    /\ bets = <<>>
    /\ data_directory = NoDirectory
    /\ call = Idle
    /\ ret = NoReturn

CallTopOfStandings ==
    /\ call = Idle
    /\ \E n \in StandingsNs :
         /\ call' = [op |-> "get_top_teams", n |-> n]
         /\ ret' = IF LeagueTableRaises(df) THEN [raise |-> "KeyError"]
                   ELSE [teams |-> GetTopTeams(df, n)]
    /\ UNCHANGED <<df, prev_df, bets, data_directory>>

CallBottomOfStandings ==
    /\ call = Idle
    /\ \E n \in StandingsNs :
         /\ call' = [op |-> "get_bottom_teams", n |-> n]
         /\ ret' = IF LeagueTableRaises(df) THEN [raise |-> "KeyError"]
                   ELSE [teams |-> GetBottomTeams(df, n)]
    /\ UNCHANGED <<df, prev_df, bets, data_directory>>

NextStandings == CallTopOfStandings \/ CallBottomOfStandings

SpecStandings == InitStandings /\ [][NextStandings]_vars

(***************************************************************************)
(* The four evaluators called on the same target season.  In the previous  *)
(* season TeamA is first, TeamB second and TeamC seventeenth of twenty.    *)
(* A row without home or away odds is dropped at the head of every loop,   *)
(* so the odds faults kept here are the ones that reach the bet decisions. *)
(***************************************************************************)
OddsFaults == {"H0", "D", "D0", "A0"}

RankedPrevSeasons ==
    {p \in PrevSeasonFiles : p[1].FTR = "H" /\ p[5].FTR = "H" /\ p[10].FTR = "D"}

InitEvaluators ==
    /\ df \in SeasonFilesUpTo(MaxMatches, OddsFaults)
    /\ prev_df \in RankedPrevSeasons
    /\ bets = <<>>
    /\ data_directory = NoDirectory
    /\ call = Idle
    /\ ret = NoReturn

NextEvaluators ==
    CallAnalyzeHomeAway \/ CallAnalyzeForm \/ CallAnalyzeMomentum \/ CallAnalyzeTopBottom

SpecEvaluators == InitEvaluators /\ [][NextEvaluators]_vars

(***************************************************************************)
(* analyze_betting_performance and backtest_strategy of the four           *)
(* evaluators on a data directory.  A season file on disk is its rows      *)
(* together with the columns it has: all of them, all but the odds         *)
(* columns, or all but the HomeTeam column.                                *)
(***************************************************************************)
MaxSeasons == 3

Years == 1..MaxSeasons

\* start_season=None, end_season=None
DefaultSeason == 0

SeasonFile(columns, rows) == [columns |-> columns, rows |-> rows]

\* TeamA wins its first two matches and TeamB loses its first two.
DecidedRows == [i \in 1..MaxMatches |-> Row(i, IF i = 1 THEN "H" ELSE "A", "none")]

BetSeasons ==
    {d \in SeasonFilesUpTo(MaxMatches, {}) :
        Len(d) = MaxMatches /\ \A i \in 1..(MaxMatches - 1) : d[i] = DecidedRows[i]}

FilesOnDisk ==
    {SeasonFile("all", d) : d \in BetSeasons}
    \cup {SeasonFile("all", <<>>), SeasonFile("all", <<Row(1, "H", "H0")>>),
          SeasonFile("no_odds", DecidedRows), SeasonFile("no_match", DecidedRows)}

DataDirectories == UNION {[S -> FilesOnDisk] : S \in SUBSET Years}

\* _get_available_seasons: the seasons with a file, ascending.
RECURSIVE SortedSeasons(_)
SortedSeasons(S) ==
    IF S = {} THEN <<>>
    ELSE LET first == CHOOSE x \in S : \A y \in S : x <= y
         IN  <<first>> \o SortedSeasons(S \ {first})

AvailableSeasons(dir) == SortedSeasons(DOMAIN dir)

\* The part of analyze_betting_performance that Home-Away, Form and Momentum
\* share: everything runs inside try / except Exception.
\* result is what the loop over the rows gives when the file can be read.
GuardedAnalysis(dir, target_season, result) ==
    IF target_season \notin DOMAIN dir THEN [error |-> "Error analyzing season"]
    ELSE IF dir[target_season].rows = <<>> THEN [error |-> "No data available"]
    ELSE IF dir[target_season].columns = "no_odds" THEN [error |-> "Missing odds columns"]
    ELSE IF dir[target_season].columns = "no_match" THEN [error |-> "Error analyzing season"]
    ELSE IF "error" \in DOMAIN result THEN result
    ELSE [target_season |-> target_season] @@ result

\* The rows load_season_data returns for a season that has a file.
SeasonRows(dir, season) == IF season \in DOMAIN dir THEN dir[season].rows ELSE <<>>

AnalyzeSeasonHomeAway(dir, target_season) ==
    GuardedAnalysis(dir, target_season, AnalyzeHomeAway(SeasonRows(dir, target_season)))

AnalyzeSeasonForm(dir, target_season, form_games, form_threshold, bet_against_poor_form) ==
    GuardedAnalysis(dir, target_season,
        AnalyzeForm(SeasonRows(dir, target_season), form_games, form_threshold,
                    bet_against_poor_form))

AnalyzeSeasonMomentum(dir, target_season, lookback_games, bet_against_losing_momentum) ==
    GuardedAnalysis(dir, target_season,
        AnalyzeMomentum(SeasonRows(dir, target_season), lookback_games, Frac(2, 10),
                        Frac(-2, 10), bet_against_losing_momentum))

\* Top-Bottom catches FileNotFoundError only.
AnalyzeSeasonTopBottom(dir, target_season, top_n, include_against_bottom) ==
    LET previous_season == target_season - 1
    IN  IF previous_season \notin DOMAIN dir THEN [error |-> "Previous season data not found"]
        ELSE IF dir[previous_season].columns = "no_match" THEN [raise |-> "ValueError"]
        ELSE IF LeagueTableRaises(dir[previous_season].rows) THEN [raise |-> "KeyError"]
        ELSE IF target_season \notin DOMAIN dir THEN [error |-> "Target season data not found"]
        ELSE IF dir[target_season].columns = "no_odds" THEN [error |-> "Missing odds columns"]
        ELSE IF dir[target_season].columns = "no_match" /\ dir[target_season].rows # <<>>
             THEN [raise |-> "KeyError"]
        ELSE [target_season |-> target_season, previous_season |-> previous_season]
             @@ AnalyzeTopBottom(dir[previous_season].rows, dir[target_season].rows,
                                 top_n, include_against_bottom)

\* The loop of every backtest: the seasons analysed in order, stopping at
\* the first exception; the seasons without 'error' are kept.
\* analysis[s] is the result of analyze_betting_performance for season s.
RunSeasons(test_seasons, analysis) ==
    LET results == [k \in DOMAIN test_seasons |-> analysis[test_seasons[k]]]
        raising == {k \in DOMAIN results : "raise" \in DOMAIN results[k]}
    IN  IF raising # {} THEN results[CHOOSE k \in raising : \A j \in raising : k <= j]
        ELSE [season_results |-> SelectSeq(results, LAMBDA r : "error" \notin DOMAIN r)]

\* backtest_strategy of Home-Away, Form and Momentum.
Backtest(dir, start_season, end_season, analysis) ==
    IF (start_season = DefaultSeason \/ end_season = DefaultSeason) /\ DOMAIN dir = {}
    THEN [raise |-> "ValueError"]
    ELSE
    LET available_seasons == AvailableSeasons(dir)
        start == IF start_season = DefaultSeason THEN Head(available_seasons) ELSE start_season
        end == IF end_season = DefaultSeason
               THEN available_seasons[Len(available_seasons)] ELSE end_season
        test_seasons == SelectSeq(available_seasons, LAMBDA s : start <= s /\ s <= end)
    IN  IF test_seasons = <<>> THEN [error |-> "No seasons available in range"]
        ELSE
        LET run == RunSeasons(test_seasons, analysis)
        IN  IF "raise" \in DOMAIN run THEN run
            ELSE IF run.season_results = <<>>
            THEN [error |-> "No successful season analyses completed"]
            ELSE
            LET season_results == run.season_results
                all_bets == Flatten([k \in DOMAIN season_results |->
                                       season_results[k].bet_details])
            IN  [start_season |-> start, end_season |-> end, test_seasons |-> test_seasons,
                 season_results |-> season_results, total_seasons |-> Len(season_results),
                 bet_details |-> all_bets, overall |-> CalculateMetrics(all_bets)]

\* PerformanceMetrics.calculate_overall_statistics
CalculateOverallStatistics(season_results) ==
    LET all_bets == Flatten([k \in DOMAIN season_results |-> season_results[k].bet_details])
        for_metrics == CalculateMetrics(SelectSeq(all_bets, LAMBDA bet : bet.bet_type = "FOR"))
        against_metrics ==
            CalculateMetrics(SelectSeq(all_bets, LAMBDA bet : bet.bet_type # "FOR"))
        total_bets == for_metrics.total_bets + against_metrics.total_bets
        total_wins == for_metrics.winning_bets + against_metrics.winning_bets
        total_stake == for_metrics.total_stake + against_metrics.total_stake
        total_winnings == for_metrics.total_winnings + against_metrics.total_winnings
        profit_loss == total_winnings - 100 * total_stake
    IN  [for_bets |-> for_metrics, against_bets |-> against_metrics,
         overall |->
           [total_bets |-> total_bets, winning_bets |-> total_wins,
            win_rate |-> IF total_bets > 0 THEN Round2(total_wins * 100, total_bets) ELSE 0,
            total_stake |-> total_stake, total_winnings |-> total_winnings,
            profit_loss |-> Round2(profit_loss, 100),
            roi |-> IF total_stake > 0 THEN Round2(profit_loss, total_stake) ELSE 0]]

\* backtest_strategy of Top-Bottom.
BacktestTopBottom(dir, top_n, start_season, end_season, include_against_bottom) ==
    IF (start_season = DefaultSeason \/ end_season = DefaultSeason) /\ DOMAIN dir = {}
    THEN [raise |-> "ValueError"]
    ELSE
    LET available_seasons == AvailableSeasons(dir)
        start == IF start_season = DefaultSeason
                 THEN Head(available_seasons) + 1 ELSE start_season
        end == IF end_season = DefaultSeason
               THEN available_seasons[Len(available_seasons)] ELSE end_season
        test_seasons == SelectSeq(available_seasons,
                            LAMBDA s : start <= s /\ s <= end /\ s > Head(available_seasons))
    IN  IF test_seasons = <<>> THEN [error |-> "No valid seasons found for backtesting"]
        ELSE
        LET run == RunSeasons(test_seasons,
                      [s \in DOMAIN dir |->
                         AnalyzeSeasonTopBottom(dir, s, top_n, include_against_bottom)])
        IN  IF "raise" \in DOMAIN run THEN run
            ELSE [top_n |-> top_n, start_season |-> start, end_season |-> end,
                  seasons_tested |-> Len(run.season_results),
                  season_results |-> run.season_results]
                 @@ CalculateOverallStatistics(run.season_results)

SeasonArguments == {DefaultSeason, 2}

InitBacktest ==
    /\ df = <<>>
    /\ prev_df = <<>>
    /\ bets = <<>>
    /\ data_directory \in DataDirectories
    /\ call = Idle
    /\ ret = NoReturn

CallSeasonHomeAway ==
    /\ call = Idle
    /\ \E target_season \in Years :
         /\ call' = [op |-> "home_away", target_season |-> target_season]
         /\ ret' = AnalyzeSeasonHomeAway(data_directory, target_season)
    /\ UNCHANGED <<df, prev_df, bets, data_directory>>

CallSeasonForm ==
    /\ call = Idle
    /\ \E target_season \in Years :
         /\ call' = [op |-> "form", target_season |-> target_season]
         /\ ret' = AnalyzeSeasonForm(data_directory, target_season, 1, Frac(6, 10), TRUE)
    /\ UNCHANGED <<df, prev_df, bets, data_directory>>

CallSeasonMomentum ==
    /\ call = Idle
    /\ \E target_season \in Years :
         /\ call' = [op |-> "momentum", target_season |-> target_season]
         /\ ret' = AnalyzeSeasonMomentum(data_directory, target_season, 2, TRUE)
    /\ UNCHANGED <<df, prev_df, bets, data_directory>>

CallSeasonTopBottom ==
    /\ call = Idle
    /\ \E target_season \in Years, include_against_bottom \in BOOLEAN :
         /\ call' = [op |-> "top_bottom", target_season |-> target_season,
                     against |-> include_against_bottom]
         /\ ret' = AnalyzeSeasonTopBottom(data_directory, target_season, 1,
                                          include_against_bottom)
    /\ UNCHANGED <<df, prev_df, bets, data_directory>>

CallBacktestHomeAway ==
    /\ call = Idle
    /\ \E start_season, end_season \in SeasonArguments :
         /\ call' = [op |-> "backtest_home_away", start_season |-> start_season,
                     end_season |-> end_season]
         /\ ret' = Backtest(data_directory, start_season, end_season,
                            [s \in DOMAIN data_directory |->
                               AnalyzeSeasonHomeAway(data_directory, s)])
    /\ UNCHANGED <<df, prev_df, bets, data_directory>>

CallBacktestForm ==
    /\ call = Idle
    /\ \E start_season, end_season \in SeasonArguments :
         /\ call' = [op |-> "backtest_form", start_season |-> start_season,
                     end_season |-> end_season]
         /\ ret' = Backtest(data_directory, start_season, end_season,
                       [s \in DOMAIN data_directory |->
                          AnalyzeSeasonForm(data_directory, s, 1, Frac(6, 10), TRUE)])
    /\ UNCHANGED <<df, prev_df, bets, data_directory>>

CallBacktestMomentum ==
    /\ call = Idle
    /\ \E start_season, end_season \in SeasonArguments :
         /\ call' = [op |-> "backtest_momentum", start_season |-> start_season,
                     end_season |-> end_season]
         /\ ret' = Backtest(data_directory, start_season, end_season,
                       [s \in DOMAIN data_directory |->
                          AnalyzeSeasonMomentum(data_directory, s, 2, TRUE)])
    /\ UNCHANGED <<df, prev_df, bets, data_directory>>

CallBacktestTopBottom ==
    /\ call = Idle
    /\ \E start_season, end_season \in SeasonArguments, include_against_bottom \in BOOLEAN :
         /\ call' = [op |-> "backtest_top_bottom", start_season |-> start_season,
                     end_season |-> end_season, against |-> include_against_bottom]
         /\ ret' = BacktestTopBottom(data_directory, 1, start_season, end_season,
                                     include_against_bottom)
    /\ UNCHANGED <<df, prev_df, bets, data_directory>>

NextBacktest ==
    \/ CallSeasonHomeAway \/ CallSeasonForm \/ CallSeasonMomentum \/ CallSeasonTopBottom
    \/ CallBacktestHomeAway \/ CallBacktestForm \/ CallBacktestMomentum
    \/ CallBacktestTopBottom

SpecBacktest == InitBacktest /\ [][NextBacktest]_vars

(***************************************************************************)
(* The signal calculators called with a season of a data directory that    *)
(* holds at most one season file.                                          *)
(***************************************************************************)
\* Mutant: an absent season file is read as a file without rows.
TeamFormInAbsentSeason(dir, team, season, match_date, form_games) ==
    IF season \in DOMAIN dir /\ dir[season].columns = "no_match"
    THEN [error |-> "Error calculating form"]
    ELSE CalculateTeamForm(IF season \in DOMAIN dir THEN dir[season].rows ELSE <<>>,
                           team, match_date, form_games)

\* calculate_team_form(team, season, match_date, form_games): load_season_data
\* and the column lookups run inside try / except Exception.
TeamFormInSeason(dir, team, season, match_date, form_games) ==
    IF season \notin DOMAIN dir \/ dir[season].columns = "no_match"
    THEN [error |-> "Error calculating form"]
    ELSE CalculateTeamForm(dir[season].rows, team, match_date, form_games)

\* calculate_team_momentum(team, season, match_date, lookback_games)
TeamMomentumInSeason(dir, team, season, match_date, lookback_games) ==
    IF season \notin DOMAIN dir \/ dir[season].columns = "no_match"
    THEN [error |-> "Error calculating momentum"]
    ELSE CalculateTeamMomentum(dir[season].rows, team, match_date, lookback_games)

InitSeasonSignals ==
    /\ df = <<>>
    /\ prev_df = <<>>
    /\ bets = <<>>
    /\ data_directory \in {dir \in DataDirectories : Cardinality(DOMAIN dir) <= 1}
    /\ call = Idle
    /\ ret = NoReturn

CallSeasonTeamForm ==
    /\ call = Idle
    /\ \E team \in Teams, season \in Years, match_date \in AsOfDates, form_games \in FormWindows :
         /\ call' = [op |-> "calculate_team_form", team |-> team, season |-> season,
                     match_date |-> match_date, window |-> form_games]
         /\ ret' = TeamFormInSeason(data_directory, team, season, match_date, form_games)
    /\ UNCHANGED <<df, prev_df, bets, data_directory>>

CallSeasonTeamMomentum ==
    /\ call = Idle
    /\ \E team \in Teams, season \in Years, match_date \in AsOfDates, lookback_games \in LookbackWindows :
         /\ call' = [op |-> "calculate_team_momentum", team |-> team, season |-> season,
                     match_date |-> match_date, window |-> lookback_games]
         /\ ret' = TeamMomentumInSeason(data_directory, team, season, match_date,
                                        lookback_games)
    /\ UNCHANGED <<df, prev_df, bets, data_directory>>

NextSeasonSignals == CallSeasonTeamForm \/ CallSeasonTeamMomentum

SpecSeasonSignals == InitSeasonSignals /\ [][NextSeasonSignals]_vars

(***************************************************************************)
(* Properties of the signal calculators.                                   *)
(***************************************************************************)
FormReturned == call.op = "calculate_team_form" /\ "error" \notin DOMAIN ret

MomentumReturned == call.op = "calculate_team_momentum" /\ "error" \notin DOMAIN ret

\* Rows of df that involve the team of the call and are dated strictly before
\* its as-of date.
PriorRows ==
    {i \in 1..Len(df) : /\ (df[i].HomeTeam = call.team \/ df[i].AwayTeam = call.team)
                        /\ df[i].Date.fmt = "ymd"
                        /\ df[i].Date.day < call.match_date.day}

NewerRows(i) == {j \in PriorRows : df[j].Date.day > df[i].Date.day}

\* The k most recent of the prior rows.
MostRecentRows(k) == {i \in PriorRows : Cardinality(NewerRows(i)) < k}

\* The outcome of row i for the team of the call.
OutcomeOfRow(i) ==
    IF (df[i].HomeTeam = call.team /\ df[i].FTR = "H") \/ (df[i].AwayTeam = call.team /\ df[i].FTR = "A")
    THEN "W"
    ELSE IF df[i].FTR = "D" THEN "D" ELSE "L"

NewestOutcome == OutcomeOfRow(CHOOSE i \in PriorRows : NewerRows(i) = {})

\* The length of the run of identical outcomes that starts at the most recent
\* prior row, within the window of the call.
RunAtHead ==
    IF PriorRows = {} THEN 0
    ELSE LET ks == {k \in 1..Min(call.window, Cardinality(PriorRows)) :
                        \A i \in MostRecentRows(k) : OutcomeOfRow(i) = NewestOutcome}
         IN  CHOOSE k \in ks : \A k2 \in ks : k2 <= k

\* C7: for every team, season file, as-of date and window >= 1, form_score is in
\* [0, 1], momentum_score is in [-1, 1] and current_streak <= games_played <=
\* lookback_games.
C7_ScoreBounds ==
    /\ FormReturned =>
         /\ 0 <= ret.form_score.num
         /\ ret.form_score.num <= ret.form_score.den
    /\ MomentumReturned =>
         /\ -ret.momentum_score.den <= ret.momentum_score.num
         /\ ret.momentum_score.num <= ret.momentum_score.den
         /\ ret.current_streak <= ret.games_played
         /\ ret.games_played <= ret.lookback_games

\* A full window of losses: momentum_score is exactly -1.
C7_Witness ==
    /\ MomentumReturned
    /\ ret.games_played = ret.lookback_games
    /\ ret.current_streak = ret.games_played
    /\ ret.momentum_score.num = -ret.momentum_score.den
    /\ Cardinality(PriorRows) > ret.lookback_games

\* C8: current_streak is the run-length of identical outcomes starting at the
\* team's most recent match strictly before the as-of date, within the
\* lookback_games most recent matches; momentum_score is +streak/lookback for a
\* winning run, -streak/lookback for a losing run and 0 for a run of draws.
C8_MomentumStreak ==
    MomentumReturned =>
        /\ ret.current_streak = RunAtHead
        /\ PriorRows = {} => ret.momentum_score.num = 0
        /\ PriorRows # {} =>
             /\ NewestOutcome = "W" =>
                  ret.momentum_score.num * call.window = RunAtHead * ret.momentum_score.den
             /\ NewestOutcome = "L" =>
                  ret.momentum_score.num * call.window = (-RunAtHead) * ret.momentum_score.den
             /\ NewestOutcome = "D" => ret.momentum_score.num = 0

\* Three wins in a row with lookback 10: momentum_score is 0.3.
C8_Witness ==
    /\ MomentumReturned
    /\ call.window = 10
    /\ ret.current_streak = 3
    /\ ret.streak_type = "winning"
    /\ ret.momentum_score = Frac(3, 10)

\* C9: calculate_team_form counts only the team's matches dated strictly before
\* the as-of date, and of those only the window_n most recent; games_played =
\* wins + draws + losses = min(window_n, number of such matches), points =
\* 3*wins + draws and form_score = (3*wins + draws) / (3*window_n).
C9_FormWindow ==
    FormReturned =>
        LET counted == MostRecentRows(call.window)
            w == Cardinality({i \in counted : OutcomeOfRow(i) = "W"})
            d == Cardinality({i \in counted : OutcomeOfRow(i) = "D"})
            l == Cardinality({i \in counted : OutcomeOfRow(i) = "L"})
        IN  /\ ret.wins = w /\ ret.draws = d /\ ret.losses = l
            /\ ret.games_played = ret.wins + ret.draws + ret.losses
            /\ ret.games_played = Min(call.window, Cardinality(PriorRows))
            /\ ret.points = 3 * ret.wins + ret.draws
            /\ ret.form_score.num * (3 * call.window) = (3 * w + d) * ret.form_score.den

\* The window cuts off an older win, and a match on the as-of day is left out.
C9_Witness ==
    /\ FormReturned
    /\ call.window = 2
    /\ Cardinality(PriorRows) = 3
    /\ ret.wins = 0
    /\ ret.points = 1
    /\ \E i \in PriorRows : OutcomeOfRow(i) = "W"

(***************************************************************************)
(* Properties of the performance aggregator.                               *)
(***************************************************************************)
MetricsReturned == call.op = "calculate_metrics"

AllZero(m) ==
    /\ m.total_bets = 0 /\ m.winning_bets = 0 /\ m.win_rate = 0 /\ m.total_stake = 0
    /\ m.total_winnings = 0 /\ m.profit_loss = 0 /\ m.roi = 0

\* C4 as stated: the returned profit_loss equals total_winnings - total_stake and
\* the returned roi equals 100*profit_loss/total_stake exactly (0 when
\* total_stake = 0); all metrics are 0 for the empty list.
C4_RoiExact ==
    MetricsReturned =>
        /\ ret.profit_loss = ret.total_winnings - 100 * ret.total_stake
        /\ ret.total_stake > 0 => ret.roi * ret.total_stake = 100 * ret.profit_loss
        /\ ret.total_stake = 0 => ret.roi = 0
        /\ bets = <<>> => AllZero(ret)

\* C4 amended: profit_loss equals total_winnings - total_stake rounded to two
\* decimals, and roi equals 100*(total_winnings - total_stake)/total_stake
\* rounded to two decimals (within 0.005 of the exact quotient), 0 when
\* total_stake = 0; all metrics are 0 for the empty list.
C4_RoiRounded ==
    MetricsReturned =>
        LET exact == ret.total_winnings - 100 * ret.total_stake IN
        /\ 2 * Abs(ret.profit_loss - exact) <= 1
        /\ ret.total_stake > 0 =>
             2 * Abs(ret.roi * ret.total_stake - 100 * exact) <= ret.total_stake
        /\ ret.total_stake = 0 => ret.roi = 0
        /\ bets = <<>> => AllZero(ret)

\* Three unit bets, one won at 2.0: profit -1 on a stake of 3, roi -33.33.
C4_Witness ==
    /\ MetricsReturned
    /\ ret.total_stake = 3
    /\ ret.profit_loss = -100
    /\ ret.roi = -3333

(***************************************************************************)
(* Properties of the evaluators.                                           *)
(***************************************************************************)
HomeAwayReturned == call.op = "home_away"

\* The rows that have both team names, the result code and positive home odds.
HomeBetRows ==
    {i \in 1..Len(df) : /\ df[i].HomeTeam # "NaN" /\ df[i].AwayTeam # "NaN"
                        /\ df[i].FTR # "NaN" /\ df[i].H > 0}

\* The k-th smallest element of a set of row numbers.
KthRow(S, k) == CHOOSE i \in S : Cardinality({j \in S : j < i}) = k - 1

ExampleSeason == <<Row(1, "H", "none"), Row(2, "D", "none"), Row(3, "A", "none")>>

\* C6: the Home-Away evaluator yields exactly one record for every match
\* that has both team names, the result code and positive home odds, in file
\* order: a unit stake on the home team at the home odds, won iff the result
\* is H; it reports an error exactly when there is no such match; and the
\* three-match example season aggregates to 3 bets, 1 won, stake 3,
\* winnings 1.5, profit -1.5, roi -50.0.
C6_HomeAwayOnePerMatch ==
    HomeAwayReturned =>
       /\ ("error" \in DOMAIN ret) <=> (HomeBetRows = {})
       /\ "error" \notin DOMAIN ret =>
            /\ Len(ret.bet_details) = Cardinality(HomeBetRows)
            /\ ret.total_bets = Cardinality(HomeBetRows)
            /\ \A k \in 1..Len(ret.bet_details) :
                 LET m == df[KthRow(HomeBetRows, k)]
                     b == ret.bet_details[k]
                 IN  /\ b.home_team = m.HomeTeam /\ b.away_team = m.AwayTeam
                     /\ b.bet_team = m.HomeTeam
                     /\ b.stake = 1 /\ b.odds = m.H
                     /\ b.bet_wins <=> (m.FTR = "H")
                     /\ b.winnings = (IF m.FTR = "H" THEN m.H ELSE 0)
       /\ df = ExampleSeason =>
            /\ ret.total_bets = 3 /\ ret.winning_bets = 1 /\ ret.total_stake = 3
            /\ ret.total_winnings = 150 /\ ret.profit_loss = -150 /\ ret.roi = -5000

\* The example season has been evaluated by the Home-Away evaluator.
C6_Witness ==
    /\ HomeAwayReturned
    /\ df = ExampleSeason
    /\ "error" \notin DOMAIN ret
    /\ Len(ret.bet_details) = 3

MomentumAnalyzed == call.op = "momentum"

BetDetails == IF "bet_details" \in DOMAIN ret THEN ret.bet_details ELSE <<>>

\* The records of the returned list that belong to row i of the file.
RecordsOfMatch(i) ==
    SelectSeq(BetDetails, LAMBDA b : /\ b.home_team = df[i].HomeTeam
                                     /\ b.away_team = df[i].AwayTeam
                                     /\ b.match_date = df[i].Date)

\* The records of row i that are not bets against a team.
BackingRecords(i) ==
    SelectSeq(RecordsOfMatch(i), LAMBDA b : b.bet_type # "MOMENTUM_LOSING_AGAINST")

\* The momentum of a team as of the date of row i, over the window of the call.
MomentumAt(i, team) ==
    CalculateTeamMomentum(df, team, strftime(to_datetime(df[i].Date)), call.window)

\* Row i names both teams and a date, and both teams have a momentum score.
ScoresKnown(i) ==
    /\ df[i].HomeTeam # "NaN" /\ df[i].AwayTeam # "NaN" /\ df[i].Date.fmt = "ymd"
    /\ "error" \notin DOMAIN MomentumAt(i, df[i].HomeTeam)
    /\ "error" \notin DOMAIN MomentumAt(i, df[i].AwayTeam)

\* Row i is not skipped: names, result, date, home and away odds are present
\* and both teams have at least two earlier matches in the window.
NotSkipped(i) ==
    /\ ScoresKnown(i)
    /\ df[i].FTR # "NaN" /\ df[i].H # NaN /\ df[i].A # NaN
    /\ MomentumAt(i, df[i].HomeTeam).games_played >= 2
    /\ MomentumAt(i, df[i].AwayTeam).games_played >= 2

Clears(score) == FracGE(score, call.threshold)

IsBackingOf(b, i, team) ==
    /\ b.bet_team = team /\ b.bet_type = "MOMENTUM_WINNING" /\ b.stake = 1
    /\ b.odds = (IF team = df[i].HomeTeam THEN df[i].H ELSE df[i].A)
    /\ b.bet_wins <=> (df[i].FTR = (IF team = df[i].HomeTeam THEN "H" ELSE "A"))

IsDrawBet(b, i) ==
    /\ b.bet_team = "DRAW" /\ b.bet_type = "MOMENTUM_DRAW" /\ b.stake = 1
    /\ b.odds = df[i].D
    /\ b.bet_wins <=> (df[i].FTR = "D")

\* The side the winning-momentum rule selects for row i: a team, "DRAW" or "none".
SelectedSide(i) ==
    LET hs == MomentumAt(i, df[i].HomeTeam).momentum_score
        as == MomentumAt(i, df[i].AwayTeam).momentum_score
    IN  IF Clears(hs) /\ Clears(as)
        THEN IF FracLT(FracAbsDiff(hs, as), Frac(1, 100)) THEN "DRAW"
             ELSE IF FracGT(hs, as) THEN df[i].HomeTeam ELSE df[i].AwayTeam
        ELSE IF Clears(hs) THEN df[i].HomeTeam
             ELSE IF Clears(as) THEN df[i].AwayTeam ELSE "none"

SideOdds(i, side) ==
    IF side = "DRAW" THEN df[i].D
    ELSE IF side = df[i].HomeTeam THEN df[i].H ELSE df[i].A

EvaluatorReturned ==
    call.op \in {"home_away", "form", "momentum", "top_bottom"} /\ "bet_details" \in DOMAIN ret

\* C5: for the list an evaluator returns, the FOR and AGAINST parts computed
\* by calculate_separate_metrics add up to the overall metrics in total_bets,
\* winning_bets, total_stake and total_winnings.
C5_PartitionSumsToOverall ==
    EvaluatorReturned =>
       LET separate == CalculateSeparateMetrics(ret.bet_details)
           for_bets == separate.for_bets
           against_bets == separate.against_bets
       IN  /\ ret.total_bets = for_bets.total_bets + against_bets.total_bets
           /\ ret.winning_bets = for_bets.winning_bets + against_bets.winning_bets
           /\ ret.total_stake = for_bets.total_stake + against_bets.total_stake
           /\ ret.total_winnings = for_bets.total_winnings + against_bets.total_winnings

(***************************************************************************)
(* Properties of the league table.                                         *)
(***************************************************************************)
TableReturned == call.op = "get_league_table" /\ "table" \in DOMAIN ret

\* The rows of the file in which no team name, goal count or result is missing.
FullRows ==
    {i \in 1..Len(df) : /\ df[i].HomeTeam # "NaN" /\ df[i].AwayTeam # "NaN"
                        /\ df[i].FTHG # NaN /\ df[i].FTAG # NaN /\ df[i].FTR # "NaN"}

WonRows(team) ==
    {i \in FullRows : \/ df[i].HomeTeam = team /\ df[i].FTR = "H"
                      \/ df[i].AwayTeam = team /\ df[i].FTR = "A"}

DrawnRows(team) ==
    {i \in FullRows : (df[i].HomeTeam = team \/ df[i].AwayTeam = team) /\ df[i].FTR = "D"}

PlayedRows(team) == {i \in FullRows : df[i].HomeTeam = team \/ df[i].AwayTeam = team}

\* C10: in the returned table every team has points = 3*wins + draws, and
\* its counters are those of the rows with no missing team name, goal count
\* or result code: the other rows add no team and change no total.
C10_PointsFromWinsAndDraws ==
    TableReturned =>
       /\ \A k \in DOMAIN ret.table :
            LET t == ret.table[k] IN
            /\ t.points = 3 * t.wins + t.draws
            /\ t.wins = Cardinality(WonRows(t.team))
            /\ t.draws = Cardinality(DrawnRows(t.team))
            /\ t.matches_played = Cardinality(PlayedRows(t.team))
            /\ t.losses = t.matches_played - t.wins - t.draws
       /\ {ret.table[k].team : k \in DOMAIN ret.table}
             = {df[i].HomeTeam : i \in FullRows} \cup {df[i].AwayTeam : i \in FullRows}
       /\ \A k, l \in DOMAIN ret.table : ret.table[k].team = ret.table[l].team => k = l

\* A table is returned for a file with a skipped row, and some team in it
\* has both won and drawn.
C10_Witness ==
    /\ TableReturned
    /\ FullRows # 1..Len(df)
    /\ \E k \in DOMAIN ret.table :
         /\ ret.table[k].wins >= 1 /\ ret.table[k].draws >= 1
         /\ ret.table[k].points = 3 * ret.table[k].wins + ret.table[k].draws

(***************************************************************************)
(* Properties of the Top-Bottom evaluator.                                 *)
(***************************************************************************)
TopBottomReturned == call.op = "top_bottom" /\ "bet_details" \in DOMAIN ret

TopSet == {ret.top_teams[k] : k \in DOMAIN ret.top_teams}

BottomSet == {ret.bottom_teams[k] : k \in DOMAIN ret.bottom_teams}

\* Row i has both names, the result and positive home, draw and away odds.
CompleteData(i) ==
    /\ df[i].HomeTeam # "NaN" /\ df[i].AwayTeam # "NaN" /\ df[i].FTR # "NaN"
    /\ df[i].H > 0 /\ df[i].D > 0 /\ df[i].A > 0

\* team is in the top set and the other side of row i is in the bottom set.
TopFacingBottom(i, team) ==
    \/ team = df[i].HomeTeam /\ team \in TopSet /\ df[i].AwayTeam \in BottomSet
    \/ team = df[i].AwayTeam /\ team \in TopSet /\ df[i].HomeTeam \in BottomSet

\* C1: a match with complete data between a team of the previous season's
\* top set and a team of its bottom set yields exactly one record, a FOR
\* bet on the top team, and no AGAINST record.
C1_TopVersusBottomOneRecord ==
    TopBottomReturned =>
      \A i \in 1..Len(df) : \A team \in Teams :
         CompleteData(i) /\ TopFacingBottom(i, team) =>
            /\ Len(RecordsOfMatch(i)) = 1
            /\ RecordsOfMatch(i)[1].bet_type = "FOR"
            /\ RecordsOfMatch(i)[1].bet_team = team

(***************************************************************************)
(* Properties of the waterfall advisor.                                    *)
(***************************************************************************)
WaterfallReturned == call.op = "waterfall"

\* The number of rows of the season that involve the team and are dated
\* before the date of the call.
GamesBefore(team) ==
    IF call.match_date.fmt # "ymd" THEN 0
    ELSE Cardinality({i \in 1..Len(df) :
                        /\ (df[i].HomeTeam = team \/ df[i].AwayTeam = team)
                        /\ df[i].Date.fmt = "ymd"
                        /\ df[i].Date.day < call.match_date.day})

EnoughGames(n) == GamesBefore(call.home_team) >= n /\ GamesBefore(call.away_team) >= n

FormOf(team) == CalculateTeamForm(df, team, call.match_date, call.form_games).form_score

MomentumOf(team) ==
    CalculateTeamMomentum(df, team, call.match_date, MomentumLookback).momentum_score

PrevRank(team) ==
    LET table == GetLeagueTable(prev_df)
        rows == {k \in DOMAIN table : table[k].team = team}
    IN  IF rows = {} THEN 0 ELSE CHOOSE k \in rows : TRUE

\* The team step k selects for the game of the call, "None" if it does not fire.
StepTeam(k) ==
    LET home == call.home_team
        away == call.away_team
    IN  CASE k = 1 ->
               IF ~EnoughGames(call.form_games) THEN "None"
               ELSE IF FracLE(FormOf(home), call.poor_form_threshold) THEN home
               ELSE IF FracLE(FormOf(away), call.poor_form_threshold) THEN away ELSE "None"
          [] k = 2 ->
               IF ~EnoughGames(10) THEN "None"
               ELSE IF FracLE(MomentumOf(home), Frac(-2, 10)) THEN home
               ELSE IF FracLE(MomentumOf(away), Frac(-2, 10)) THEN away ELSE "None"
          [] k = 3 ->
               IF ~EnoughGames(call.form_games) THEN "None"
               ELSE IF FracGE(FormOf(home), call.form_threshold) THEN home
               ELSE IF FracGE(FormOf(away), call.form_threshold) THEN away ELSE "None"
          [] k = 4 ->
               IF ~EnoughGames(10) THEN "None"
               ELSE IF FracGE(MomentumOf(home), Frac(2, 10)) THEN home
               ELSE IF FracGE(MomentumOf(away), Frac(2, 10)) THEN away ELSE "None"
          [] k = 5 ->
               LET home_rank == PrevRank(home)
                   away_rank == PrevRank(away)
               IN  IF home_rank = 0 \/ away_rank = 0 THEN "None"
                   ELSE IF home_rank <= call.top_n /\ away_rank >= 21 - call.top_n THEN home
                   ELSE IF away_rank <= call.top_n /\ home_rank >= 21 - call.top_n THEN away
                   ELSE "None"

StepOrder == <<"form_against", "momentum_against", "form_for", "momentum_for", "top_bottom">>

\* C3: the advisor returns the recommendation of the first step, in the
\* order Form-AGAINST, Momentum-AGAINST, Form-FOR, Momentum-FOR, Top-Bottom,
\* that selects a team, and calls no check after it; a form step fires only
\* when both teams have form_games earlier matches and a momentum step only
\* when both have 10; bet_team is None exactly when no step fires.
C3_FirstFiringStep ==
    WaterfallReturned =>
       LET step_team == [k \in 1..5 |-> StepTeam(k)]
           firing == {k \in 1..5 : step_team[k] # "None"}
           first == CHOOSE k \in firing : \A j \in firing : k <= j
       IN  /\ (ret.bet_team = "None") <=> (firing = {})
           /\ firing = {} => ret.priority = 0 /\ ret.checked = StepOrder
           /\ firing # {} =>
                /\ ret.priority = first
                /\ ret.strategy_used = StepOrder[first]
                /\ ret.bet_team = step_team[first]
                /\ ret.checked = SubSeq(StepOrder, 1, first)
           /\ ret.priority \in {1, 3} => EnoughGames(call.form_games)
           /\ ret.priority \in {2, 4} => EnoughGames(10)

\* Form-AGAINST and Momentum-FOR are both satisfiable and only Form-AGAINST
\* is returned, without Momentum-FOR having been checked.
C3_Witness ==
    /\ WaterfallReturned
    /\ StepTeam(1) # "None" /\ StepTeam(4) # "None"
    /\ ret.priority = 1 /\ ret.strategy_used = "form_against"
    /\ ret.checked = <<"form_against">>

AnyTableReturned ==
    call.op \in {"get_league_table", "get_league_table_again"} /\ "table" \in DOMAIN ret

\* The place of a team's first appearance in the complete rows of the file,
\* the home team of a row before its away team.
FirstSeen(team) ==
    LET places == {2 * i + (IF df[i].HomeTeam = team THEN 0 ELSE 1) :
                     i \in {j \in FullRows : df[j].HomeTeam = team \/ df[j].AwayTeam = team}}
    IN  CHOOSE x \in places : \A y \in places : x <= y

\* C11: the table carries the ranks 1..n, one per team; a team ranked above
\* another has more points, or the same points and a goal difference at least
\* as large; teams equal on both stand in the order of their first appearance
\* in the match rows; a second call on the same rows returns the same table.
C11_RanksOrdered ==
    AnyTableReturned =>
       /\ \A k \in DOMAIN ret.table : ret.table[k].rank = k
       /\ \A k, l \in DOMAIN ret.table :
            ret.table[k].team = ret.table[l].team => k = l
       /\ \A k, l \in DOMAIN ret.table : k < l =>
            LET x == ret.table[k]
                y == ret.table[l]
            IN  /\ x.goal_difference = x.goals_for - x.goals_against
                /\ \/ x.points > y.points
                   \/ x.points = y.points /\ x.goal_difference > y.goal_difference
                   \/ /\ x.points = y.points /\ x.goal_difference = y.goal_difference
                      /\ FirstSeen(x.team) < FirstSeen(y.team)
       /\ call.op = "get_league_table_again" =>
            "table" \in DOMAIN ret.previous /\ ret.previous.table = ret.table

\* A table returned twice in which two teams tie on points and goal
\* difference and a third team stands apart from them.
C11_Witness ==
    /\ call.op = "get_league_table_again" /\ "table" \in DOMAIN ret
    /\ Len(ret.table) = 3
    /\ \E k \in 1..2 :
         /\ ret.table[k].points = ret.table[k + 1].points
         /\ ret.table[k].goal_difference = ret.table[k + 1].goal_difference
    /\ ret.table[1].points > ret.table[3].points

BottomTeamsReturned == call.op = "get_bottom_teams" /\ "teams" \in DOMAIN ret

\* C12: get_bottom_teams(N) returns exactly the N teams at the ranks
\* total-N-2 .. total-3 of the table, and none of the last three teams.
C12_BottomSkipsLastThree ==
    BottomTeamsReturned =>
       LET table == GetLeagueTable(df)
           total == Len(table)
       IN  /\ Len(ret.teams) = call.n
           /\ \A k \in 1..Len(ret.teams) :
                /\ total - call.n - 3 + k \in 1..(total - 3)
                /\ ret.teams[k] = table[total - call.n - 3 + k].team

\* C13: every Bet Record of the four evaluators has stake 1; a lost bet
\* has winnings 0, a won bet has winnings stake * odds with odds > 0.
C13_StakeAndWinnings ==
    EvaluatorReturned =>
       \A k \in DOMAIN ret.bet_details :
          LET bet == ret.bet_details[k]
          IN  /\ bet.stake = 1
              /\ ~bet.bet_wins => bet.winnings = 0
              /\ bet.bet_wins => bet.winnings = bet.stake * bet.odds /\ bet.odds > 0

C13_Witness ==
    /\ call.op = "top_bottom"
    /\ "bet_details" \in DOMAIN ret
    /\ \E j, k \in DOMAIN ret.bet_details :
          /\ ret.bet_details[j].bet_type = "FOR" /\ ret.bet_details[j].bet_wins
          /\ ret.bet_details[j].winnings = 150
          /\ ret.bet_details[k].bet_type = "AGAINST" /\ ~ret.bet_details[k].bet_wins
          /\ ret.bet_details[k].winnings = 0

AgainstTypes == {"AGAINST", "FORM_POOR_AGAINST", "MOMENTUM_LOSING_AGAINST"}

\* The row of the season file a Bet Record was made from.
MatchOf(bet) ==
    CHOOSE i \in DOMAIN df :
       /\ df[i].HomeTeam = bet.home_team
       /\ df[i].AwayTeam = bet.away_team
       /\ df[i].Date = bet.match_date

\* C14: a record that bets against team T wins exactly when the match is
\* drawn or won by T's opponent, carries the larger of the opponent's and
\* the draw odds, and exists only when both of these odds are present and
\* positive.
C14_AgainstRecords ==
    EvaluatorReturned =>
       \A k \in DOMAIN ret.bet_details :
          LET bet == ret.bet_details[k]
              match == df[MatchOf(bet)]
              at_home == bet.bet_team = match.HomeTeam
              opponent_odds == IF at_home THEN match.A ELSE match.H
              opponent_wins == IF at_home THEN "A" ELSE "H"
          IN  bet.bet_type \in AgainstTypes =>
                 /\ bet.bet_team \in {match.HomeTeam, match.AwayTeam}
                 /\ bet.bet_wins <=> match.FTR \in {"D", opponent_wins}
                 /\ bet.odds = Max(opponent_odds, match.D)
                 /\ ~isna(opponent_odds) /\ opponent_odds > 0
                 /\ ~isna(match.D) /\ match.D > 0

C14_Witness ==
    /\ call.op = "top_bottom"
    /\ "bet_details" \in DOMAIN ret
    /\ \E k \in DOMAIN ret.bet_details :
          /\ ret.bet_details[k].bet_type = "AGAINST"
          /\ ret.bet_details[k].bet_team = "TeamC"
          /\ ret.bet_details[k].result = "D"
          /\ ret.bet_details[k].bet_wins
          /\ ret.bet_details[k].odds = 320

(***************************************************************************)
(* Properties of the entry points on a data directory.                     *)
(***************************************************************************)
SeasonOps == {"home_away", "form", "momentum", "top_bottom"}

BacktestOps ==
    {"backtest_home_away", "backtest_form", "backtest_momentum", "backtest_top_bottom"}

Raised == "raise" \in DOMAIN ret

\* C16: an analysis of a season that produced no valid bet returns an error
\* result, and a backtest keeps no such season in season_results.
C16_NoBetsIsError ==
    /\ call.op \in SeasonOps /\ ~Raised =>
          "error" \in DOMAIN ret \/ ret.bet_details # <<>>
    /\ call.op \in BacktestOps /\ "season_results" \in DOMAIN ret =>
          \A k \in DOMAIN ret.season_results : ret.season_results[k].bet_details # <<>>

\* The situations C17 names: the season file (or the previous season's
\* file) is absent or lacks match or odds columns, or there is no season.
FaultyInput ==
    \/ data_directory = <<>>
    \/ /\ call.op \in SeasonOps
       /\ \/ call.target_season \notin DOMAIN data_directory
          \/ data_directory[call.target_season].columns # "all"
          \/ /\ call.op = "top_bottom"
             /\ \/ call.target_season - 1 \notin DOMAIN data_directory
                \/ data_directory[call.target_season - 1].columns = "no_match"

\* C17: no analysis and no backtest lets an exception escape; with an
\* absent file, absent columns or no season at all the result has 'error'.
C17_NoExceptionEscapes ==
    call.op \in SeasonOps \cup BacktestOps =>
       /\ ~Raised
       /\ FaultyInput => "error" \in DOMAIN ret

\* The analysis a backtest runs for season s, with the arguments of the call.
SeasonAnalysis(s) ==
    CASE call.op = "backtest_home_away" -> AnalyzeSeasonHomeAway(data_directory, s)
      [] call.op = "backtest_form" -> AnalyzeSeasonForm(data_directory, s, 1, Frac(6, 10), TRUE)
      [] call.op = "backtest_momentum" -> AnalyzeSeasonMomentum(data_directory, s, 2, TRUE)
      [] call.op = "backtest_top_bottom" ->
            AnalyzeSeasonTopBottom(data_directory, s, 1, call.against)

\* The available seasons of the requested range that analyse without error.
GoodSeasons ==
    {s \in DOMAIN data_directory :
        /\ call.start_season = DefaultSeason \/ call.start_season <= s
        /\ call.end_season = DefaultSeason \/ s <= call.end_season
        /\ "error" \notin DOMAIN SeasonAnalysis(s)
        /\ "raise" \notin DOMAIN SeasonAnalysis(s)}

\* C15: a backtest always reaches its end; season_results holds, in
\* ascending order, exactly the seasons of the range whose analysis returned
\* no error, each with the result of its analysis; the overall metrics are
\* the metrics of the concatenated bet_details.
C15_BacktestKeepsGoodSeasons ==
    call.op \in BacktestOps =>
       /\ ~Raised
       /\ "season_results" \notin DOMAIN ret => "error" \in DOMAIN ret /\ GoodSeasons = {}
       /\ "season_results" \in DOMAIN ret =>
            LET season_results == ret.season_results
                good == SortedSeasons(GoodSeasons)
            IN  /\ Len(season_results) = Len(good)
                /\ \A k \in DOMAIN season_results : season_results[k] = SeasonAnalysis(good[k])
                /\ ret.overall =
                     CalculateMetrics(Flatten([k \in DOMAIN good |->
                                                 SeasonAnalysis(good[k]).bet_details]))

(***************************************************************************)
(* Properties of the signal calculators on a data directory.               *)
(***************************************************************************)
SeasonSignalReturned == call.op \in {"calculate_team_form", "calculate_team_momentum"}

\* The season file is there with its match columns, the as-of date parses,
\* and no row of the file is a match of the team before that date.
NothingPlayedBefore ==
    /\ call.season \in DOMAIN data_directory
    /\ data_directory[call.season].columns # "no_match"
    /\ ~isna(to_datetime(call.match_date))
    /\ LET rows == data_directory[call.season].rows
       IN  \A i \in DOMAIN rows :
              call.team \in {rows[i].HomeTeam, rows[i].AwayTeam} =>
                 \/ isna(to_datetime(rows[i].Date))
                 \/ to_datetime(rows[i].Date) >= to_datetime(call.match_date)

\* C18: calculate_team_form and calculate_team_momentum never raise.  A
\* malformed as-of date or an absent season file gives a result with
\* 'error'; a team without a match before the as-of date gives the zero
\* result without 'error'.
C18_SignalsNeverRaise ==
    SeasonSignalReturned =>
       /\ ~Raised
       /\ (isna(to_datetime(call.match_date)) \/ call.season \notin DOMAIN data_directory)
             => "error" \in DOMAIN ret
       /\ NothingPlayedBefore =>
             /\ "error" \notin DOMAIN ret
             /\ ret.games_played = 0
             /\ call.op = "calculate_team_form" =>
                   /\ ret.wins = 0 /\ ret.draws = 0 /\ ret.losses = 0 /\ ret.points = 0
                   /\ ret.form_score = Frac(0, 1)
             /\ call.op = "calculate_team_momentum" =>
                   ret.current_streak = 0 /\ ret.momentum_score = Frac(0, 1)

C18_Witness ==
    /\ call.op = "calculate_team_momentum"
    /\ NothingPlayedBefore
    /\ data_directory[call.season].rows = DecidedRows
    /\ call.team = "TeamC"
    /\ ret.games_played = 0

(***************************************************************************)
(* Properties of the Momentum and Form evaluators: matches played before.  *)
(***************************************************************************)
\* The number of rows of the file that are matches of team before row i.
EarlierMatches(i, team) ==
    Cardinality({j \in 1..Len(df) :
                   /\ team \in {df[j].HomeTeam, df[j].AwayTeam}
                   /\ ~isna(to_datetime(df[j].Date))
                   /\ to_datetime(df[j].Date) < to_datetime(df[i].Date)})

\* C19: the Momentum evaluator produces no record for a match in which
\* either team has fewer than lookback_games matches before the match date.
C19_NoRecordBelowLookback ==
    MomentumAnalyzed =>
       \A i \in 1..Len(df) :
          (/\ ~MissingEssential(df[i])
           /\ ~isna(to_datetime(df[i].Date))
           /\ \/ EarlierMatches(i, df[i].HomeTeam) < call.window
              \/ EarlierMatches(i, df[i].AwayTeam) < call.window)
          => RecordsOfMatch(i) = <<>>

FormAnalyzed == call.op = "form"

\* Row i names both teams, the result and the date and has present, positive
\* home, draw and away odds.
HasValidOdds(i) ==
    /\ ~MissingEssential(df[i])
    /\ ~isna(to_datetime(df[i].Date))
    /\ ValidOdds(df[i].H) /\ ValidOdds(df[i].D) /\ ValidOdds(df[i].A)

FormScoreAt(i, team) ==
    CalculateTeamForm(df, team, strftime(to_datetime(df[i].Date)), call.window).form_score

\* The number of records of row i with the given team and type.
RecordCount(i, team, type) ==
    Len(SelectSeq(RecordsOfMatch(i), LAMBDA b : b.bet_team = team /\ b.bet_type = type))

\* C20: for a match with valid odds the Form evaluator produces no record
\* when either team has fewer than form_games earlier matches; otherwise a
\* FORM_GOOD record on a team exactly when its form_score >= form_threshold
\* and a FORM_POOR_AGAINST record exactly when betting against poor form is
\* enabled and its form_score <= 0.3, each team and direction decided on its
\* own, so at most four records per match.
C20_FormRecords ==
    FormAnalyzed =>
       \A i \in 1..Len(df) :
          HasValidOdds(i) =>
             LET records == RecordsOfMatch(i)
                 sides == {df[i].HomeTeam, df[i].AwayTeam}
             IN  IF \E team \in sides : EarlierMatches(i, team) < call.window
                 THEN records = <<>>
                 ELSE /\ \A team \in sides :
                           LET score == FormScoreAt(i, team)
                           IN  /\ RecordCount(i, team, "FORM_GOOD") =
                                     (IF FracGE(score, call.threshold) THEN 1 ELSE 0)
                               /\ RecordCount(i, team, "FORM_POOR_AGAINST") =
                                     (IF call.against /\ FracLE(score, Frac(3, 10))
                                      THEN 1 ELSE 0)
                      /\ \A k \in DOMAIN records :
                            /\ records[k].bet_team \in sides
                            /\ records[k].bet_type \in {"FORM_GOOD", "FORM_POOR_AGAINST"}
                      /\ Len(records) <= 4

C20_Witness ==
    /\ FormAnalyzed
    /\ \E i \in 1..Len(df) :
          /\ HasValidOdds(i)
          /\ RecordCount(i, df[i].HomeTeam, "FORM_POOR_AGAINST") = 1
          /\ RecordCount(i, df[i].AwayTeam, "FORM_GOOD") = 1
          /\ Len(RecordsOfMatch(i)) = 2

(***************************************************************************)
(* Properties of the Momentum evaluator: bets against losing momentum.     *)
(***************************************************************************)
LosingAt(i, team) == FracLE(MomentumAt(i, team).momentum_score, call.losing_threshold)

BetterRanked(i, list) ==
    IF RankIn(list, df[i].HomeTeam) < RankIn(list, df[i].AwayTeam)
    THEN df[i].HomeTeam ELSE df[i].AwayTeam

\* C22: a match with complete data between two teams of the top set yields
\* exactly one record, a FOR bet on the better ranked of the two; a match
\* between two teams of the bottom set yields exactly one record, an
\* AGAINST bet on the better ranked of the two.
C22_SameSetOneRecord ==
    TopBottomReturned =>
       \A i \in 1..Len(df) :
          CompleteData(i) =>
             LET records == RecordsOfMatch(i)
                 sides == {df[i].HomeTeam, df[i].AwayTeam}
             IN  /\ sides \subseteq TopSet =>
                      /\ Len(records) = 1
                      /\ records[1].bet_type = "FOR"
                      /\ records[1].bet_team = BetterRanked(i, ret.top_teams)
                 /\ sides \subseteq BottomSet /\ ~(sides \subseteq TopSet) =>
                      /\ Len(records) = 1
                      /\ records[1].bet_type = "AGAINST"
                      /\ records[1].bet_team = BetterRanked(i, ret.bottom_teams)

(***************************************************************************)
(* BettingAdvisor: the weighted combination of the four strategy opinions. *)
(* Weights are in hundredths; a confidence is an exact fraction.           *)
(***************************************************************************)
RECURSIVE GCD(_, _)
GCD(a, b) == IF b = 0 THEN a ELSE GCD(b, a % b)

\* a + b in lowest terms
FracAdd(a, b) ==
    LET n == a.num * b.den + b.num * a.den
        d == a.den * b.den
        g == GCD(Abs(n), d)
    IN  Frac(n \div g, d \div g)

FracEq(a, b) == a.num * b.den = b.num * a.den

\* The order in which the opinions are collected.
Strategies == <<"momentum", "form", "top_bottom", "home_away">>

\* Mutant: every strategy weighs the same.
EqualStrategyWeights == [momentum |-> 25, form |-> 25, top_bottom |-> 25, home_away |-> 25]

StrategyWeights == [momentum |-> 40, form |-> 30, top_bottom |-> 20, home_away |-> 10]

\* weight * confidence of the opinions of recs, a record by strategy, that
\* name the team, summed in collection order.
TeamScore(recs, team) ==
    LET part(k) == IF recs[Strategies[k]].bet_team = team
                   THEN Frac(recs[Strategies[k]].confidence.num * StrategyWeights[Strategies[k]],
                             recs[Strategies[k]].confidence.den * 100)
                   ELSE Frac(0, 1)
    IN  FracAdd(FracAdd(FracAdd(part(1), part(2)), part(3)), part(4))

CalculateWeightedRecommendation(momentum_rec, form_rec, top_bottom_rec, home_away_rec) ==
    LET recs == [momentum |-> momentum_rec, form |-> form_rec,
                 top_bottom |-> top_bottom_rec, home_away |-> home_away_rec]
        recommendations == SelectSeq(Strategies, LAMBDA s : recs[s].bet_team # None)
        \* keys of team_scores in insertion order
        firstOf(team) == CHOOSE k \in DOMAIN recommendations :
                            /\ recs[recommendations[k]].bet_team = team
                            /\ \A j \in 1..(k - 1) : recs[recommendations[j]].bet_team # team
        teams == {recs[s].bet_team : s \in {recommendations[k] : k \in DOMAIN recommendations}}
        \* max() keeps the first of several greatest items
        best_team == CHOOSE t \in teams :
                        \A u \in teams \ {t} :
                           \/ FracGT(TeamScore(recs, t), TeamScore(recs, u))
                           \/ /\ FracEq(TeamScore(recs, t), TeamScore(recs, u))
                              /\ firstOf(t) < firstOf(u)
    IN  IF recommendations = <<>>
        THEN [bet_team |-> None, confidence |-> Frac(0, 1), supporting_strategies |-> <<>>]
        ELSE [bet_team |-> best_team,
              confidence |-> FracMin(TeamScore(recs, best_team), Frac(1, 1)),
              supporting_strategies |->
                 SelectSeq(recommendations, LAMBDA s : recs[s].bet_team = best_team)]

\* The opinions the four recommenders can hand over for a fixture: none, or
\* one of the two teams with a confidence the recommender can compute.
OpinionsOn(game, confidences) ==
    {NoOpportunity} \cup {[bet_team |-> t, confidence |-> c] : t \in {game[1], game[2]}, c \in confidences}

MomentumConfidences == {Frac(8, 10), Frac(1, 1)}

FormConfidences == {Frac(2, 3), Frac(1, 1)}

TopBottomConfidences == {Frac(8, 10)}

HomeAwayConfidences == {Frac(3, 10), Frac(1, 1)}

InitWeighted ==
    /\ df = <<>>
    /\ prev_df = <<>>
    /\ bets = <<>>
    /\ data_directory = NoDirectory
    /\ call = Idle
    /\ ret = NoReturn

CallCalculateWeightedRecommendation ==
    /\ call = Idle
    /\ \E game \in UpcomingGames :
       \E momentum_rec \in OpinionsOn(game, MomentumConfidences), form_rec \in OpinionsOn(game, FormConfidences), top_bottom_rec \in OpinionsOn(game, TopBottomConfidences), home_away_rec \in OpinionsOn(game, HomeAwayConfidences) :
         /\ call' = [op |-> "weighted", home_team |-> game[1], away_team |-> game[2],
                     recs |-> [momentum |-> momentum_rec, form |-> form_rec,
                               top_bottom |-> top_bottom_rec, home_away |-> home_away_rec]]
         /\ ret' = CalculateWeightedRecommendation(momentum_rec, form_rec, top_bottom_rec,
                                                   home_away_rec)
    /\ UNCHANGED <<df, prev_df, bets, data_directory>>

NextWeighted == CallCalculateWeightedRecommendation

SpecWeighted == InitWeighted /\ [][NextWeighted]_vars

(***************************************************************************)
(* Properties of the weighted combination.                                 *)
(***************************************************************************)
WeightedReturned == call.op = "weighted"

\* The strategies whose opinion names the team.
Recommending(team) == {s \in DOMAIN call.recs : call.recs[s].bet_team = team}

\* The score of a team in ten-thousandths times the common denominator 30
\* of the confidences: 0.40, 0.30, 0.20 and 0.10 of the confidences of the
\* strategies that name it.
WeighedScore(team) ==
    LET share(s, w) == IF s \in Recommending(team)
                       THEN (w * call.recs[s].confidence.num * 30) \div call.recs[s].confidence.den
                       ELSE 0
    IN  share("momentum", 40) + share("form", 30) + share("top_bottom", 20) + share("home_away", 10)

\* C23: the team returned is one with the greatest weighted score among the
\* teams some strategy recommends, the confidence is that score capped at 1
\* and lies in [0, 1], the supporting strategies are exactly the strategies
\* recommending the team; with no recommending strategy the team is None
\* and the confidence 0.
C23_WeightedRecommendation ==
    WeightedReturned =>
       LET named == {t \in {call.home_team, call.away_team} : Recommending(t) # {}}
       IN  IF named = {}
           THEN ret.bet_team = None /\ ret.confidence = Frac(0, 1)
           ELSE /\ ret.bet_team \in named
                /\ \A t \in named : WeighedScore(ret.bet_team) >= WeighedScore(t)
                /\ ret.confidence.num * 3000 = Min(WeighedScore(ret.bet_team), 3000) * ret.confidence.den
                /\ FracGE(ret.confidence, Frac(0, 1)) /\ FracLE(ret.confidence, Frac(1, 1))
                /\ {ret.supporting_strategies[k] : k \in DOMAIN ret.supporting_strategies}
                      = Recommending(ret.bet_team)
                /\ Len(ret.supporting_strategies) = Cardinality(Recommending(ret.bet_team))

\* The strategies disagree, and the team with fewer but heavier supporters
\* is returned.
C23_Witness ==
    /\ WeightedReturned
    /\ ret.bet_team = call.home_team
    /\ Recommending(call.home_team) = {"momentum"}
    /\ Recommending(call.away_team) = {"form"}
    /\ call.recs["momentum"].confidence = Frac(8, 10)
    /\ call.recs["form"].confidence = Frac(1, 1)

(***************************************************************************)
(* The Top-Bottom opinion of the two advisors.  The waterfall advisor      *)
(* reads the standings of the previous season (prev_df), BettingAdvisor    *)
(* the standings of the season it is given, the current one (df).          *)
(***************************************************************************)
\* The name mapping falls back to the name itself; one entry stands for it.
NormalizeTeamName(team_name) == IF team_name = "Girona FC" THEN "Girona" ELSE team_name

GetTopBottomRecommendation(d, home_team, away_team) ==
    IF LeagueTableRaises(d) THEN NoOpportunity
    ELSE
    LET standings == GetLeagueTable(d)
        home_position == PositionOf(standings, NormalizeTeamName(home_team))
        away_position == PositionOf(standings, NormalizeTeamName(away_team))
    IN  IF home_position = 0 \/ away_position = 0 THEN NoOpportunity
        ELSE IF home_position <= 3 /\ away_position >= 18
        THEN [bet_team |-> home_team, confidence |-> Frac(8, 10)]
        ELSE IF away_position <= 3 /\ home_position >= 18
        THEN [bet_team |-> away_team, confidence |-> Frac(8, 10)]
        ELSE NoOpportunity

OpinionNs == {1, 3}

InitOpinion ==
    /\ df \in PrevSeasonFiles
    /\ prev_df \in PrevSeasonFiles
    /\ bets = <<>>
    /\ data_directory = NoDirectory
    /\ call = Idle
    /\ ret = NoReturn

CallCheckTopBottomOpportunity ==
    /\ call = Idle
    /\ \E game \in UpcomingGames, top_n \in OpinionNs :
         /\ call' = [op |-> "check_top_bottom_opportunity", home_team |-> game[1],
                     away_team |-> game[2], top_n |-> top_n]
         /\ ret' = CheckTopBottomOpportunity(prev_df, game[1], game[2], top_n)
    /\ UNCHANGED <<df, prev_df, bets, data_directory>>

CallGetTopBottomRecommendation ==
    /\ call = Idle
    /\ \E game \in UpcomingGames :
         /\ call' = [op |-> "get_top_bottom_recommendation", home_team |-> game[1],
                     away_team |-> game[2], top_n |-> 3]
         /\ ret' = GetTopBottomRecommendation(df, game[1], game[2])
    /\ UNCHANGED <<df, prev_df, bets, data_directory>>

NextOpinion == CallCheckTopBottomOpportunity \/ CallGetTopBottomRecommendation

SpecOpinion == InitOpinion /\ [][NextOpinion]_vars

(***************************************************************************)
(* Properties of the Top-Bottom opinion of the advisors.                   *)
(***************************************************************************)
OpinionReturned ==
    call.op \in {"check_top_bottom_opportunity", "get_top_bottom_recommendation"}

\* The fixture of the call as a row of a target season with odds.
FixtureRow ==
    [HomeTeam |-> call.home_team, AwayTeam |-> call.away_team, Date |-> DateString("ymd", 1),
     FTHG |-> 1, FTAG |-> 1, FTR |-> "D", H |-> 200, D |-> 300, A |-> 400]

\* The evaluator, with the previous season's sets, takes the fixture as a
\* top team against a bottom team and places a FOR record on the team.
EvaluatorBacks(team) ==
    LET top_teams == GetTopTeams(prev_df, call.top_n)
        bottom_teams == GetBottomTeams(prev_df, call.top_n)
        records == TopBottomBets(FixtureRow, top_teams, bottom_teams)
    IN  /\ \/ InList(top_teams, call.home_team) /\ InList(bottom_teams, call.away_team)
           \/ InList(top_teams, call.away_team) /\ InList(bottom_teams, call.home_team)
        /\ \E k \in DOMAIN records : records[k].bet_team = team /\ records[k].bet_type = "FOR"

\* C24: an advisor backs a team on Top-Bottom grounds exactly when the
\* evaluator, with the previous season's top and bottom sets, takes the
\* fixture as top against bottom and backs that team.
C24_OpinionAsEvaluator ==
    OpinionReturned =>
       \A team \in {call.home_team, call.away_team} :
          (ret.bet_team = team) <=> EvaluatorBacks(team)

(***************************************************************************)
(* get_betting_recommendations of the two advisors on a list of upcoming   *)
(* fixtures.  A fixture is a record with home_team and away_team and,      *)
(* when the feed supplies one, a match_date.  BettingAdvisor's opinions    *)
(* carry their reason, for the failure cases.                              *)
(***************************************************************************)
Abstain(reason) == [bet_team |-> None, confidence |-> Frac(0, 1), reason |-> reason]

Opinion(team, confidence, reason) == [bet_team |-> team, confidence |-> confidence, reason |-> reason]

AdvisorWindow == 3

GetMomentumRecommendation(d, home_team, away_team, match_date) ==
    LET home_momentum == CalculateTeamMomentum(d, NormalizeTeamName(home_team), match_date, AdvisorWindow)
        away_momentum == CalculateTeamMomentum(d, NormalizeTeamName(away_team), match_date, AdvisorWindow)
        strong_momentum_threshold == Frac(2, 10)
        weak_momentum_threshold == Frac(-2, 10)
    IN  IF "error" \in DOMAIN home_momentum \/ "error" \in DOMAIN away_momentum
        THEN Abstain("Insufficient data")
        ELSE IF home_momentum.games_played < AdvisorWindow \/ away_momentum.games_played < AdvisorWindow
        THEN Abstain("Insufficient games")
        ELSE IF /\ FracGE(home_momentum.momentum_score, strong_momentum_threshold)
                /\ FracLE(away_momentum.momentum_score, weak_momentum_threshold)
        THEN Opinion(home_team,
                     FracMin(FracTimes(FracAbsDiff(home_momentum.momentum_score,
                                                   away_momentum.momentum_score), 2), Frac(1, 1)),
                     "Home team strong momentum")
        ELSE IF /\ FracGE(away_momentum.momentum_score, strong_momentum_threshold)
                /\ FracLE(home_momentum.momentum_score, weak_momentum_threshold)
        THEN Opinion(away_team,
                     FracMin(FracTimes(FracAbsDiff(away_momentum.momentum_score,
                                                   home_momentum.momentum_score), 2), Frac(1, 1)),
                     "Away team strong momentum")
        ELSE Abstain("No clear momentum advantage")

GetFormRecommendation(d, home_team, away_team, match_date) ==
    LET home_form == CalculateTeamForm(d, NormalizeTeamName(home_team), match_date, AdvisorWindow)
        away_form == CalculateTeamForm(d, NormalizeTeamName(away_team), match_date, AdvisorWindow)
        good_form_threshold == Frac(6, 10)
        poor_form_threshold == Frac(4, 10)
    IN  IF "error" \in DOMAIN home_form \/ "error" \in DOMAIN away_form
        THEN Abstain("Insufficient data")
        ELSE IF home_form.games_played < AdvisorWindow \/ away_form.games_played < AdvisorWindow
        THEN Abstain("Insufficient games")
        ELSE IF /\ FracGE(home_form.form_score, good_form_threshold)
                /\ FracLE(away_form.form_score, poor_form_threshold)
        THEN Opinion(home_team,
                     FracMin(FracTimes(FracAbsDiff(home_form.form_score, away_form.form_score), 2),
                             Frac(1, 1)),
                     "Home team good form")
        ELSE IF /\ FracGE(away_form.form_score, good_form_threshold)
                /\ FracLE(home_form.form_score, poor_form_threshold)
        THEN Opinion(away_team,
                     FracMin(FracTimes(FracAbsDiff(away_form.form_score, home_form.form_score), 2),
                             Frac(1, 1)),
                     "Away team good form")
        ELSE Abstain("No clear form advantage")

\* get_team_home_record and get_team_away_record: games and wins of the
\* team at home (side "HomeTeam", winning code "H") or away.
TeamRecord(d, team_name, side, winning) ==
    LET games == SelectSeq(d, LAMBDA m : m[side] = team_name)
    IN  IF d = <<>> THEN [error |-> "No data available"]
        ELSE IF games = <<>> THEN [error |-> "No games found"]
        ELSE [games |-> Len(games),
              wins |-> Len(SelectSeq(games, LAMBDA m : m.FTR = winning))]

GetHomeAwayRecommendation(d, home_team, away_team) ==
    LET home_record == TeamRecord(d, NormalizeTeamName(home_team), "HomeTeam", "H")
        away_record == TeamRecord(d, NormalizeTeamName(away_team), "AwayTeam", "A")
    IN  IF "error" \in DOMAIN home_record \/ "error" \in DOMAIN away_record
        THEN Abstain("Insufficient data")
        ELSE
        LET home_win_rate == Frac(home_record.wins, home_record.games)
            away_win_rate == Frac(away_record.wins, away_record.games)
            home_advantage_threshold == Frac(1, 10)
        IN  IF FracGE(FracSub(home_win_rate, away_win_rate), home_advantage_threshold)
            THEN Opinion(home_team,
                         FracMin(FracTimes(FracSub(home_win_rate, away_win_rate), 3), Frac(1, 1)),
                         "Home team strong home record")
            ELSE IF FracGE(FracSub(away_win_rate, home_win_rate), home_advantage_threshold)
            THEN Opinion(away_team,
                         FracMin(FracTimes(FracSub(away_win_rate, home_win_rate), 3), Frac(1, 1)),
                         "Away team strong away record")
            ELSE Abstain("No clear home/away advantage")

\* game.get('match_date', match_date)
GameDate(game, match_date) ==
    IF "match_date" \in DOMAIN game THEN game.match_date ELSE match_date

\* The entry BettingAdvisor appends for one game of the list, given the four
\* opinions on it.
EntryOf(game, game_date, opinions) ==
    [home_team |-> game.home_team, away_team |-> game.away_team, match_date |-> game_date,
     recommendation |-> CalculateWeightedRecommendation(opinions.momentum, opinions.form,
                                                        opinions.top_bottom, opinions.home_away),
     individual_strategies |-> opinions]

\* The body of the loop over the games.  The opinions are computed once.
BettingEntry(d, game, match_date) ==
    LET home_team == game.home_team
        away_team == game.away_team
        game_date == GameDate(game, match_date)
        momentum_rec == GetMomentumRecommendation(d, home_team, away_team, match_date)
        form_rec == GetFormRecommendation(d, home_team, away_team, match_date)
        top_bottom_rec == GetTopBottomRecommendation(d, home_team, away_team)
        home_away_rec == GetHomeAwayRecommendation(d, home_team, away_team)
    IN  CHOOSE entry \in {EntryOf(game, game_date, opinions) :
                             opinions \in {[momentum |-> momentum_rec, form |-> form_rec,
                                            top_bottom |-> top_bottom_rec,
                                            home_away |-> home_away_rec]}} : TRUE

BettingRecommendations(d, upcoming_games, match_date) ==
    [k \in DOMAIN upcoming_games |-> BettingEntry(d, upcoming_games[k], match_date)]

\* The entry the waterfall advisor appends for one game of the list.
WaterfallEntry(d, prev_d, game, match_date, form_games, form_threshold, poor_form_threshold, top_n) ==
    LET game_date == GameDate(game, match_date)
    IN  [home_team |-> game.home_team, away_team |-> game.away_team, match_date |-> game_date,
         recommendation |-> ApplyWaterfallLogic(d, prev_d, game.home_team, game.away_team,
                                                game_date, form_games, form_threshold,
                                                poor_form_threshold, top_n)]

\* Mutant: the loop ends at the first game whose date cannot be read.
WaterfallUntilFailure(d, prev_d, upcoming_games, match_date, form_games, form_threshold, poor_form_threshold, top_n) ==
    LET readable(k) == ~isna(to_datetime(GameDate(upcoming_games[k], match_date)))
        done == {k \in DOMAIN upcoming_games : \A j \in 1..k : readable(j)}
    IN  [k \in done |->
            WaterfallEntry(d, prev_d, upcoming_games[k], match_date, form_games, form_threshold,
                           poor_form_threshold, top_n)]

WaterfallRecommendations(d, prev_d, upcoming_games, match_date, form_games, form_threshold, poor_form_threshold, top_n) ==
    [k \in DOMAIN upcoming_games |->
        WaterfallEntry(d, prev_d, upcoming_games[k], match_date, form_games, form_threshold,
                       poor_form_threshold, top_n)]

\* The current season: every team has played ten matches, the results of
\* the last two rows (played on the last day but one and on the last day)
\* vary, the earlier matches are home wins.
FeedSeasons ==
    { [i \in 1..FullSeasonRows |-> Row(i, IF i \in DOMAIN res THEN res[i] ELSE "H", "none")] :
         res \in [{FullSeasonRows - 1, FullSeasonRows} -> Results] }

EarlyDate == DateString("ymd", FullSeasonRows - 1)

LateDate == DateString("ymd", FullSeasonRows + 1)

\* A date pd.to_datetime cannot read in the expected format.
UnreadableDate == DateString("dmy", FullSeasonRows + 1)

\* The feed: a fixture without a date, with an early, a late or an
\* unreadable date.
UpcomingFixtures ==
    { [home_team |-> "TeamA", away_team |-> "TeamB"],
      [home_team |-> "TeamA", away_team |-> "TeamB", match_date |-> EarlyDate],
      [home_team |-> "TeamC", away_team |-> "TeamA", match_date |-> UnreadableDate],
      [home_team |-> "TeamC", away_team |-> "TeamA", match_date |-> EarlyDate],
      [home_team |-> "TeamC", away_team |-> "TeamA", match_date |-> LateDate] }

MaxFixtures == 2

FixtureLists == UNION {[1..n -> UpcomingFixtures] : n \in 0..MaxFixtures}

\* The match_date argument of the call.
BatchDates == {LateDate, UnreadableDate}

\* Previous seasons: TeamA first and TeamC seventeenth, or TeamA first and
\* TeamC last.
FeedPrevSeasons ==
    RankedPrevSeasons \cup {p \in PrevSeasonFiles : p[1].FTR = "H" /\ p[5].FTR = "H" /\ p[10].FTR = "A"}

InitAdvisors ==
    /\ df \in FeedSeasons
    /\ prev_df \in FeedPrevSeasons
    /\ bets = <<>>
    /\ data_directory = NoDirectory
    /\ call = Idle
    /\ ret = NoReturn

CallBettingRecommendations ==
    /\ call = Idle
    /\ \E upcoming_games \in FixtureLists, match_date \in BatchDates :
         /\ call' = [op |-> "betting_recommendations", upcoming_games |-> upcoming_games,
                     match_date |-> match_date]
         /\ ret' = BettingRecommendations(df, upcoming_games, match_date)
    /\ UNCHANGED <<df, prev_df, bets, data_directory>>

CallWaterfallRecommendations ==
    /\ call = Idle
    /\ \E upcoming_games \in FixtureLists, match_date \in BatchDates :
         /\ call' = [op |-> "waterfall_recommendations", upcoming_games |-> upcoming_games,
                     match_date |-> match_date]
         /\ ret' = WaterfallRecommendations(df, prev_df, upcoming_games, match_date,
                                            3, Frac(6, 10), Frac(4, 10), 3)
    /\ UNCHANGED <<df, prev_df, bets, data_directory>>

NextAdvisors == CallBettingRecommendations \/ CallWaterfallRecommendations

SpecAdvisors == InitAdvisors /\ [][NextAdvisors]_vars

(***************************************************************************)
(* Properties of get_betting_recommendations.                              *)
(***************************************************************************)
BettingReturned == call.op = "betting_recommendations"

WaterfallListReturned == call.op = "waterfall_recommendations"

\* The entry for game k were it the only game of the list.
EntryAlone(k) ==
    IF BettingReturned
    THEN BettingEntry(df, call.upcoming_games[k], call.match_date)
    ELSE WaterfallEntry(df, prev_df, call.upcoming_games[k], call.match_date,
                        3, Frac(6, 10), Frac(4, 10), 3)

\* The date handed to the form and momentum calculators for game k cannot
\* be read, so that their computation fails.
SignalsFail(k) ==
    IF BettingReturned THEN isna(to_datetime(call.match_date))
    ELSE isna(to_datetime(GameDate(call.upcoming_games[k], call.match_date)))

OwnDate(k) ==
    IF "match_date" \in DOMAIN call.upcoming_games[k]
    THEN call.upcoming_games[k].match_date ELSE call.match_date

\* C28: the form and momentum signals of every entry are those as of the
\* game's own date when it has one, and as of the match_date argument
\* otherwise.
C28_SignalsAsOfFixtureDate ==
    /\ BettingReturned =>
          \A k \in 1..Len(ret) :
             LET game == call.upcoming_games[k]
             IN  /\ ret[k].individual_strategies.form =
                       GetFormRecommendation(df, game.home_team, game.away_team, OwnDate(k))
                 /\ ret[k].individual_strategies.momentum =
                       GetMomentumRecommendation(df, game.home_team, game.away_team, OwnDate(k))
    /\ WaterfallListReturned =>
          \A k \in 1..Len(ret) :
             LET game == call.upcoming_games[k]
             IN  ret[k].recommendation =
                    ApplyWaterfallLogic(df, prev_df, game.home_team, game.away_team, OwnDate(k),
                                        3, Frac(6, 10), Frac(4, 10), 3)

(***************************************************************************)
(* Properties of the Top-Bottom evaluator: the two sets.                   *)
(***************************************************************************)
\* Row i has at most one record, and no team of it has both a FOR and an
\* AGAINST record.
AtMostOneRecord(i) ==
    LET records == RecordsOfMatch(i)
    IN  /\ Len(records) <= 1
        /\ ~ \E j, k \in DOMAIN records :
               /\ records[j].bet_team = records[k].bet_team
               /\ records[j].bet_type = "FOR" /\ records[k].bet_type = "AGAINST"

\* C27: the top set and the bottom set of the evaluator are disjoint, every
\* match has at most one record, and no team has a FOR and an AGAINST
\* record in one match.
C27_DisjointSets ==
    TopBottomReturned =>
       /\ TopSet \cap BottomSet = {}
       /\ \A i \in 1..Len(df) : AtMostOneRecord(i)

(***************************************************************************)
(* The four evaluators called on an undamaged target season.               *)
(***************************************************************************)
InitReplay ==
    /\ df \in SeasonFilesUpTo(MaxMatches, {})
    /\ prev_df \in RankedPrevSeasons
    /\ bets = <<>>
    /\ data_directory = NoDirectory
    /\ call = Idle
    /\ ret = NoReturn

SpecReplay == InitReplay /\ [][NextEvaluators]_vars

(***************************************************************************)
(* Properties of the four evaluators: no use of later results.             *)
(***************************************************************************)
AnyEvaluatorCalled == call.op \in {"home_away", "form", "momentum", "top_bottom"}

\* The file with the result code of row j replaced by r.
WithResult(j, r) == [df EXCEPT ![j].FTR = r]

\* The evaluator of the call, with the arguments of the call, run on file d.
Reanalysis(d) ==
    IF call.op = "home_away" THEN AnalyzeHomeAway(d)
    ELSE IF call.op = "form" THEN AnalyzeForm(d, call.window, call.threshold, call.against)
    ELSE IF call.op = "momentum"
    THEN AnalyzeMomentum(d, call.window, call.threshold, call.losing_threshold, call.against)
    ELSE AnalyzeTopBottom(prev_df, d, call.top_n, call.against)

\* The records of a result that belong to row i (teams and date are the
\* same in df and in a file with a replaced result).
RecordsIn(result, i) ==
    IF "bet_details" \notin DOMAIN result THEN <<>>
    ELSE SelectSeq(result.bet_details, LAMBDA b : /\ b.home_team = df[i].HomeTeam
                                                  /\ b.away_team = df[i].AwayTeam
                                                  /\ b.match_date = df[i].Date)

\* What is placed by a list of records: team, direction, odds and stake.
Placed(records) ==
    [k \in DOMAIN records |-> [bet_team |-> records[k].bet_team, bet_type |-> records[k].bet_type,
                               odds |-> records[k].odds, stake |-> records[k].stake]]

\* Row j is dated on the day of row i or later.
OnOrAfter(j, i) ==
    /\ ~isna(to_datetime(df[j].Date)) /\ ~isna(to_datetime(df[i].Date))
    /\ to_datetime(df[j].Date) >= to_datetime(df[i].Date)

\* C26: replacing the result code of a match by another valid code leaves
\* what is placed on that match and on every match dated on its day or
\* earlier unchanged; only the result, bet_wins and winnings of the records
\* of the match itself change.
C26_NoLookAhead ==
    AnyEvaluatorCalled =>
       \A j \in 1..Len(df) : \A r \in Results \ {df[j].FTR} :
          df[j].FTR \in Results =>
             \A replayed \in {Reanalysis(WithResult(j, r))} :
                \A i \in 1..Len(df) :
                   OnOrAfter(j, i) =>
                      /\ Placed(RecordsIn(replayed, i)) = Placed(RecordsIn(ret, i))
                      /\ i # j => RecordsIn(replayed, i) = RecordsIn(ret, i)

\* A Form or Momentum run with a record on a match, where another result of
\* that match changes what is placed on a later match.
C26_Witness ==
    /\ call.op \in {"form", "momentum"}
    /\ \E j \in 1..Len(df) : \E r \in Results \ {df[j].FTR} :
          /\ RecordsIn(ret, j) # <<>>
          /\ \E i \in 1..Len(df) :
                /\ ~OnOrAfter(j, i)
                /\ Placed(RecordsIn(Reanalysis(WithResult(j, r)), i)) # Placed(RecordsIn(ret, i))

(***************************************************************************)
(* BetLogger: the list self.bets under add_bet_with_odds and               *)
(* update_bet_result.  A bet id "BET_0007" is written BetId(7).  Stakes    *)
(* are whole units, odds and money are in hundredths.                      *)
(***************************************************************************)
MaxLoggedBets == 3

\* f"BET_{n:04d}"
BetId(n) == <<"BET", n>>

\* str.upper() on the result strings that are passed.
Upper(result) ==
    IF result = "won" THEN "WON"
    ELSE IF result = "lost" THEN "LOST"
    ELSE IF result = "void" THEN "VOID"
    ELSE IF result = "push" THEN "PUSH"
    ELSE result

\* A money field that may be None: <<>> for None, <<x>> for the amount x.
NoAmount == <<>>

Amount(x) == <<x>>

NewBet(bet_id, stake, odds) ==
    [bet_id |-> bet_id, stake |-> stake, odds |-> odds,
     potential_return |-> stake * odds, potential_profit |-> stake * (odds - 100),
     status |-> "PENDING", result |-> None, actual_return |-> NoAmount,
     profit_loss |-> NoAmount, notes |-> ""]

\* The list after add_bet_with_odds.
AddBetWithOdds(list, stake, odds) == Append(list, NewBet(BetId(Len(list) + 1), stake, odds))

\* The bet with the result entered.
WithOutcome(bet, result, actual_score) ==
    LET settled ==
            IF Upper(result) = "WON"
            THEN [bet EXCEPT !.status = "WON", !.result = "WON",
                             !.actual_return = Amount(bet.potential_return),
                             !.profit_loss = Amount(bet.potential_profit)]
            ELSE IF Upper(result) = "LOST"
            THEN [bet EXCEPT !.status = "LOST", !.result = "LOST",
                             !.actual_return = Amount(0),
                             !.profit_loss = Amount(-bet.stake * 100)]
            ELSE [bet EXCEPT !.status = "VOID", !.result = "VOID",
                             !.actual_return = Amount(bet.stake * 100),
                             !.profit_loss = Amount(0)]
    IN  IF actual_score # None THEN [settled EXCEPT !.notes = actual_score] ELSE settled

\* Mutant: a settled bet can be settled again.
AcceptedAlways(bet, result) == Upper(result) \in {"WON", "LOST", "VOID"}

\* update_bet_result goes on to change the bet it found.
Accepted(bet, result) ==
    bet.status = "PENDING" /\ Upper(result) \in {"WON", "LOST", "VOID"}

\* next((b for b in self.bets if b['bet_id'] == bet_id), None): the index of
\* the first bet with the id, 0 if there is none.
FindBet(list, bet_id) ==
    LET found == {k \in DOMAIN list : list[k].bet_id = bet_id}
    IN  IF found = {} THEN 0 ELSE CHOOSE k \in found : \A j \in found : k <= j

\* The list after update_bet_result.
UpdateBetResult(list, bet_id, result, actual_score) ==
    LET k == FindBet(list, bet_id)
    IN  IF k # 0 /\ Accepted(list[k], result)
        THEN [list EXCEPT ![k] = WithOutcome(list[k], result, actual_score)]
        ELSE list

\* What update_bet_result returns.
UpdateBetResultReturns(list, bet_id, result) ==
    LET k == FindBet(list, bet_id)
    IN  k # 0 /\ Accepted(list[k], result)

Stakes == {2}

LoggedOdds == {250}

ResultWords == {"WON", "LOST", "VOID", "won", "PUSH"}

ActualScores == {None, "2-1"}

InitLogger ==
    /\ df = <<>>
    /\ prev_df = <<>>
    /\ bets = <<>>
    /\ data_directory = NoDirectory
    /\ call = Idle
    /\ ret = NoReturn

CallAddBetWithOdds ==
    /\ Len(bets) < MaxLoggedBets
    /\ \E stake \in Stakes, odds \in LoggedOdds :
         /\ call' = [op |-> "add_bet_with_odds", stake |-> stake, odds |-> odds]
         /\ bets' = AddBetWithOdds(bets, stake, odds)
         /\ ret' = BetId(Len(bets) + 1)
    /\ UNCHANGED <<df, prev_df, data_directory>>

CallUpdateBetResult ==
    /\ \E n \in 1..(MaxLoggedBets + 1), result \in ResultWords, actual_score \in ActualScores :
         /\ call' = [op |-> "update_bet_result", bet_id |-> BetId(n), result |-> result,
                     actual_score |-> actual_score]
         /\ bets' = UpdateBetResult(bets, BetId(n), result, actual_score)
         /\ ret' = UpdateBetResultReturns(bets, BetId(n), result)
    /\ UNCHANGED <<df, prev_df, data_directory>>

NextLogger == CallAddBetWithOdds \/ CallUpdateBetResult

SpecLogger == InitLogger /\ [][NextLogger]_vars

(***************************************************************************)
(* Properties of the BetLogger.                                            *)
(***************************************************************************)
Outcomes == {"WON", "LOST", "VOID"}

\* No two bets of the list have the same id.
UniqueBetIds ==
    \A j, k \in DOMAIN bets : j # k => bets[j].bet_id # bets[k].bet_id

\* Every settled bet has profit_loss = actual_return - stake.
SettledBooked ==
    \A k \in DOMAIN bets :
       bets[k].status # "PENDING" =>
          /\ bets[k].status \in Outcomes
          /\ bets[k].actual_return # NoAmount
          /\ bets[k].profit_loss = Amount(bets[k].actual_return[1] - bets[k].stake * 100)

\* A step changes the status of a bet only from PENDING to an outcome.
StatusSetOnce ==
    \A k \in DOMAIN bets :
       bets'[k].status # bets[k].status =>
          bets[k].status = "PENDING" /\ bets'[k].status \in Outcomes

\* The step is an update_bet_result call that names no bet of the list or a
\* settled bet.
UnknownOrSettled ==
    /\ call'.op = "update_bet_result"
    /\ \/ FindBet(bets, call'.bet_id) = 0
       \/ bets[FindBet(bets, call'.bet_id)].status # "PENDING"

\* The call of the step returns False and leaves the list as it was.
Refused == ret' = FALSE /\ bets' = bets

MaxSavedBets == 2

MaxRowId == 4

EmptyTable == [rows |-> {}, sequence |-> 0]

HasId(bet) == "id" \in DOMAIN bet

\* BetRepository.add_bet: IntegrityError on a second row for the same
\* game, else a row with the next id.
AddBet(state, bet) ==
    IF \E row \in state.db.rows : row.game = bet.game
    THEN [state EXCEPT !.errors = @ + 1]
    ELSE [state EXCEPT !.db = [rows |-> @.rows \cup {[id |-> @.sequence + 1, game |-> bet.game,
                                                      status |-> bet.status]},
                               sequence |-> @.sequence + 1]]

\* BetRepository.update_bet on a row that exists: the allowed columns are set.
UpdateBet(state, bet_id, bet) ==
    [state EXCEPT !.db.rows = {IF row.id = bet_id THEN [row EXCEPT !.status = bet.status] ELSE row :
                                  row \in @}]

\* The body of the loop over the received bets.
SaveOne(state, bet) ==
    IF HasId(bet)
    THEN IF \E row \in state.db.rows : row.id = bet.id
         THEN UpdateBet(state, bet.id, bet)
         ELSE AddBet(state, bet)
    ELSE AddBet(state, bet)

RECURSIVE SaveEach(_, _)
SaveEach(state, bets_data) ==
    IF bets_data = <<>> THEN state
    ELSE SaveEach(SaveOne(state, Head(bets_data)), Tail(bets_data))

\* The table after save_bets_to_db and what the call does: return True or
\* raise.
SaveBetsToDb(db, bets_data) ==
    LET existing_ids == {row.id : row \in db.rows}
        received_ids == {bets_data[k].id : k \in {j \in DOMAIN bets_data : HasId(bets_data[j])}}
        ids_to_delete == existing_ids \ received_ids
        kept == [db EXCEPT !.rows = {row \in @ : row.id \notin ids_to_delete}]
        final == SaveEach([db |-> kept, errors |-> 0], bets_data)
    IN  [db |-> final.db,
         ret |-> IF final.errors > 0 THEN [raise |-> "Exception"] ELSE [value |-> TRUE]]

\* Bets the client can send: without an id, with the id of a row, with an
\* id of its own making.
ClientIds == {1, 7}

ReceivedBets ==
    LET contents == {<<"game1", "pending">>, <<"game1", "won">>, <<"game2", "pending">>}
    IN  {[game |-> c[1], status |-> c[2]] : c \in contents}
        \cup {[id |-> n, game |-> c[1], status |-> c[2]] : n \in ClientIds, c \in contents}

ReceivedLists == UNION {[1..n -> ReceivedBets] : n \in 0..MaxSavedBets}

InitDb ==
    /\ df = <<>>
    /\ prev_df = <<>>
    /\ bets = EmptyTable
    /\ data_directory = NoDirectory
    /\ call = Idle
    /\ ret = NoReturn

CallSaveBetsToDb ==
    /\ \E bets_data \in ReceivedLists :
         /\ bets.sequence + Len(bets_data) <= MaxRowId
         /\ call' = [op |-> "save_bets_to_db", bets_data |-> bets_data]
         /\ bets' = SaveBetsToDb(bets, bets_data).db
         /\ ret' = SaveBetsToDb(bets, bets_data).ret
    /\ UNCHANGED <<df, prev_df, data_directory>>

NextDb == CallSaveBetsToDb

SpecDb == InitDb /\ [][NextDb]_vars

(***************************************************************************)
(* Properties of save_bets_to_db.                                          *)
(***************************************************************************)
\* The step is a save_bets_to_db call that returns True.
Saved == call'.op = "save_bets_to_db" /\ "value" \in DOMAIN ret'

\* The row of a received bet: the row with its id when a row had that id
\* before the call, else a row with its game; it holds the bet's status.
RowOf(bet, row, before) ==
    /\ row.status = bet.status
    /\ IF HasId(bet) /\ \E old \in before.rows : old.id = bet.id
       THEN row.id = bet.id ELSE row.game = bet.game

\* The stored bets without their row ids.
StoredBets(db) == {[game |-> row.game, status |-> row.status] : row \in db.rows}

OneRowPerBet ==
    [][Saved => /\ Cardinality(bets'.rows) = Len(call'.bets_data)
                /\ \A k \in DOMAIN call'.bets_data :
                      \E row \in bets'.rows : RowOf(call'.bets_data[k], row, bets)]_vars

NoRowForAbsent ==
    [][Saved => \A row \in bets'.rows :
                   \E k \in DOMAIN call'.bets_data : RowOf(call'.bets_data[k], row, bets)]_vars

SecondCallChangesNothing ==
    [][(Saved /\ call.op = "save_bets_to_db" /\ "value" \in DOMAIN ret
          /\ call'.bets_data = call.bets_data) => StoredBets(bets') = StoredBets(bets)]_vars

\* C30: after a call that returns True the table has exactly one row for
\* each received bet (the row that had its id, updated, or else an added
\* row) and no row for a bet that was not received, and a second call with
\* the same list leaves the stored bets as they are.
C30_FullSynchronisation == OneRowPerBet /\ NoRowForAbsent /\ SecondCallChangesNothing
====
